---- MODULE Spec2Model ----
(***************************************************************************)
(* Identity validation and signature trust pipeline of the ICN ledger:     *)
(* the consensus engine's admission layer (consensus/engine.py), the       *)
(* cascading validator (consensus/validation.py), the identity service     *)
(* (identity/service.py), the signature verifiers (federation/signature.py,*)
(* identity/signature.py) and the dict based validation service            *)
(* (src/blockchain/validation.py with src/federation, src/identity).       *)
(*                                                                         *)
(* Python values are modelled as follows.  A call returns a record         *)
(* [ret, trace]: ret is "True", "False" or "Raise" (an exception left the  *)
(* call), trace is the sequence of calls made to collaborators.  Objects   *)
(* carry the set of attributes they have (attrs), dicts the set of keys    *)
(* they hold (has).  Strings that are decoded character by character are   *)
(* tuples of one-character strings.  Cryptography is symbolic: a signature *)
(* names the algorithm, the public key bytes of the key pair that made it  *)
(* and what it was made over.                                              *)
(***************************************************************************)
EXTENDS Integers, Sequences, FiniteSets, TLC

\* Bounds of the model.
MaxPool == 2
MaxNested == 2
\* Number of concurrent add_transaction calls.
NThreads == 2
\* Longest list of verification methods of the documents validated directly.
MaxMethods == 2

PyTrue == "True"
PyFalse == "False"
PyRaise == "Raise"

Result(r, t) == [ret |-> r, trace |-> t]

(***************************************************************************)
(* Key codec: base58 (the base58 package used by federation/signature.py). *)
(***************************************************************************)

\* Position of a character in the base58 alphabet, -1 when it is not in it.
B58Index(c) ==
  CASE c = "1" -> 0
    [] c = "2" -> 1
    [] c = "a" -> 33
    [] c = "z" -> 57
    [] OTHER -> -1

B58Valid(s) == \A i \in 1..Len(s) : B58Index(s[i]) >= 0

RECURSIVE B58Num(_)
B58Num(s) ==
  IF Len(s) = 0 THEN 0
  ELSE B58Num(SubSeq(s, 1, Len(s) - 1)) * 58 + B58Index(s[Len(s)])

RECURSIVE B58LeadingOnes(_)
B58LeadingOnes(s) ==
  IF Len(s) = 0 \/ s[1] # "1" THEN 0 ELSE 1 + B58LeadingOnes(Tail(s))

\* base58.b58decode of a valid string: the leading '1's become zero bytes, the
\* rest is the big-endian number.
B58Decode(s) == [zeros |-> B58LeadingOnes(s), num |-> B58Num(s)]

\* str.startswith('z')
StartsWithZ(s) == Len(s) > 0 /\ s[1] = "z"

(***************************************************************************)
(* Symbolic cryptography.                                                  *)
(***************************************************************************)

\* Messages are token sequences; hashes.Hash(hashes.SHA256()) is injective.
Sha256(m) == <<"sha256">> \o m

\* Key strings (base58, without multibase prefix) of the key pairs of the model.
KeyA == <<"2", "a">>
KeyB == <<"a", "2">>
KeyZ == <<"z", "a">>
KeyShort == <<"a">>

\* The byte strings load_der_public_key accepts as elliptic curve public keys.
EcDerKeys == {B58Decode(KeyA), B58Decode(KeyB), B58Decode(KeyZ), B58Decode(KeyShort)}

\* An ECDSA signature made with the private key of `key` over SHA-256 of `m`,
\* as bytes.
EcSign(key, m) == [enc |-> "bytes", alg |-> "EC", by |-> B58Decode(key), over |-> Sha256(m)]
\* The same signature as a base58 string.
EcSignB58(key, m) == [enc |-> "b58", alg |-> "EC", by |-> B58Decode(key), over |-> Sha256(m)]
\* An Ed25519 signature (made over the message itself), as bytes.
EdSign(key, m) == [enc |-> "bytes", alg |-> "Ed25519", by |-> B58Decode(key), over |-> m]
\* A string that is not base58, and bytes that are no signature.
BadStrSig == [enc |-> "badstr", alg |-> "none", by |-> B58Decode(<<>>), over |-> <<>>]
GarbageSig == [enc |-> "bytes", alg |-> "none", by |-> B58Decode(<<>>), over |-> <<>>]

(***************************************************************************)
(* federation/signature.py: SignatureVerifier.verify_signature             *)
(***************************************************************************)

\* The key bytes the verifier loads from a key string: a leading 'z' is taken
\* for the multibase prefix and dropped before decoding.
FedKeyString(public_key) ==
  IF StartsWithZ(public_key) THEN Tail(public_key) ELSE public_key

\* pub_key_obj.verify(signature, message_digest, ECDSA(Prehashed(SHA256))) with
\* the key loaded from `der`: TRUE when nothing is raised.
FedVerifyDer(message_digest, signature, der) ==
  /\ der \in EcDerKeys
  /\ signature.alg = "EC"
  /\ signature.by = der
  /\ signature.over = message_digest

\* The decoding of a str signature and of the key string, then the above.
FedVerifyDecoded(message, signature, keystring) ==
  /\ signature.enc \in {"bytes", "b58"}
  /\ B58Valid(keystring)
  /\ FedVerifyDer(Sha256(message), signature, B58Decode(keystring))

\* TRUE when the call returns True; every exception is caught and gives False.
FedVerify(message, signature, public_key) ==
  FedVerifyDecoded(message, signature, FedKeyString(public_key))

FedVerifySignature(message, signature, public_key) ==
  IF FedVerify(message, signature, public_key) THEN PyTrue ELSE PyFalse

(***************************************************************************)
(* identity/signature.py: SignatureVerifier.verify (dispatch on key_type)  *)
(***************************************************************************)

\* str.lower() on the algorithm tags of the model.
Lower(t) ==
  CASE t = "Ed25519" -> "ed25519"
    [] t = "RSA" -> "rsa"
    [] t = "Ed25519VerificationKey2018" -> "ed25519verificationkey2018"
    [] t = "EcdsaSecp256k1VerificationKey2019" -> "ecdsasecp256k1verificationkey2019"
    [] t = "RSA-SHA256" -> "rsa-sha256"
    [] t = "EC-SHA256" -> "ec-sha256"
    [] OTHER -> t

\* Position of a character in the base64 alphabet.
B64Index(c) ==
  CASE c = "a" -> 26
    [] c = "z" -> 51
    [] c = "0" -> 52
    [] c = "1" -> 53
    [] c = "2" -> 54
    [] OTHER -> -1

RECURSIVE B64Num(_)
B64Num(s) ==
  IF Len(s) = 0 THEN 0
  ELSE B64Num(SubSeq(s, 1, Len(s) - 1)) * 64 + B64Index(s[Len(s)])

\* base64.b64decode of a str: groups of four characters, anything else is
\* "Incorrect padding".
B64Valid(s) == Len(s) % 4 = 0 /\ \A i \in 1..Len(s) : B64Index(s[i]) >= 0
B64Decode(s) == [zeros |-> 0, num |-> B64Num(s)]

\* Key strings in base64: an Ed25519 public key and an RSA public key (DER).
Key64 == <<"a", "a", "2", "a">>
KeyRsa64 == <<"a", "a", "a", "2">>

\* The raw public keys Ed25519PublicKey.from_public_bytes accepts.
Ed25519Keys == {B58Decode(KeyA), B58Decode(KeyB), B64Decode(Key64)}

\* Signatures made with the private key of a base64 key string: Ed25519 as
\* bytes and as a base64 string, RSA PKCS1v15 with SHA-256 as bytes.
EdSign64(key, m) == [enc |-> "bytes", alg |-> "Ed25519", by |-> B64Decode(key), over |-> m]
EdSignStr64(key, m) == [enc |-> "b64", alg |-> "Ed25519", by |-> B64Decode(key), over |-> m]
RsaSign(key, m) == [enc |-> "bytes", alg |-> "RSA", by |-> B64Decode(key), over |-> m]

\* _verify_ed25519 with a str public key: the key is base64 decoded.
IdVerifyEd25519Raw(message, signature, raw) ==
  /\ signature.enc \in {"bytes", "b64"}
  /\ raw \in Ed25519Keys
  /\ signature.alg = "Ed25519"
  /\ signature.by = raw
  /\ signature.over = message

IdVerifyEd25519(message, signature, public_key) ==
  /\ B64Valid(public_key)
  /\ IdVerifyEd25519Raw(message, signature, B64Decode(public_key))

\* _verify_rsa: rsa.RSAPublicKey has no load_der_public_key; the AttributeError
\* is caught by the routine's own handler.
IdVerifyRsa(message, signature, public_key) == FALSE

PyBool(b) == IF b THEN PyTrue ELSE PyFalse

\* SignatureVerifier.verify(message, signature, public_key, key_type)
IdSigVerifyLowered(message, signature, public_key, lowered) ==
  IF lowered = "ed25519" THEN PyBool(IdVerifyEd25519(message, signature, public_key))
  ELSE IF lowered = "rsa" THEN PyBool(IdVerifyRsa(message, signature, public_key))
  ELSE PyFalse

\* A key_type that is no str: key_type.lower() raises AttributeError.
NonStringTag == "<None>"

\* verify with key_type.lower() outside of the try block.
IdSigVerifyUnguarded(message, signature, public_key, key_type) ==
  IF key_type = NonStringTag THEN PyRaise
  ELSE IdSigVerifyLowered(message, signature, public_key, Lower(key_type))

\* The whole body is in a try block whose handler returns False.
IdSigVerify(message, signature, public_key, key_type) ==
  IF key_type = NonStringTag THEN PyFalse
  ELSE IdSigVerifyLowered(message, signature, public_key, Lower(key_type))

(***************************************************************************)
(* identity/service.py: IdentityService                                    *)
(***************************************************************************)

VmRequired == {"id", "type", "controller", "publicKeyMultibase"}

\* The check of the references looking at the first element of a list only.
RefsResolveFirstOnly(refs, ids) ==
  IF refs.isList
    THEN Len(refs.refs) = 0 \/ refs.refs[1] \in ids
    ELSE \/ Len(refs.refs) = 0
         \/ refs.refs[1] = ""
         \/ refs.refs[1] \in ids

\* method.get('serviceEndpoint', []) against the declared service ids
RefsResolve(refs, ids) ==
  IF refs.isList
    THEN \A i \in 1..Len(refs.refs) : refs.refs[i] \in ids
    ELSE \/ Len(refs.refs) = 0
         \/ refs.refs[1] = ""
         \/ refs.refs[1] \in ids

ServiceIds(doc) ==
  IF "service" \in doc.has THEN {doc.service[i] : i \in 1..Len(doc.service)} ELSE {}

MethodServiceRefs(method) ==
  IF "serviceEndpoint" \in method.has
    THEN method.serviceEndpoint
    ELSE [isList |-> TRUE, refs |-> <<>>]

ServiceRefsResolve(doc, method) == RefsResolve(MethodServiceRefs(method), ServiceIds(doc))

DocVerificationMethods(doc) ==
  IF "verificationMethod" \in doc.has THEN doc.verificationMethod ELSE <<>>

\* The checks of the methods with a controller mismatch rejecting the document.
ValidateMethodsStepStrict(doc, vms) ==
  IF Len(vms) = 0 THEN 2
  ELSE IF \E i \in 1..Len(vms) : ~(VmRequired \subseteq vms[i].has) THEN 3
  ELSE IF \A i \in 1..Len(vms) : vms[i].controller # doc.id THEN 4
  ELSE IF \E i \in 1..Len(vms) : ~ServiceRefsResolve(doc, vms[i]) THEN 4
  ELSE 0

\* Step of validate_did_document at which the document is rejected, 0 when it
\* is accepted.
ValidateMethodsStep(doc, vms) ==
  IF Len(vms) = 0 THEN 2
  ELSE IF \E i \in 1..Len(vms) : ~(VmRequired \subseteq vms[i].has) THEN 3
  ELSE IF \E i \in 1..Len(vms) : ~ServiceRefsResolve(doc, vms[i]) THEN 4
  ELSE 0

ValidateDidDocumentStep(doc) ==
  IF "id" \notin doc.has \/ doc.id = "" THEN 1
  ELSE ValidateMethodsStep(doc, DocVerificationMethods(doc))

ValidateDidDocument(doc) == ValidateDidDocumentStep(doc) = 0

\* did_document.get('id') not in controllers: the warning of the controller
\* check, which comes after the check of the methods' fields.
ControllerWarning(doc, vms) ==
  IF \E i \in 1..Len(vms) : vms[i].controller = doc.id
    THEN <<>> ELSE << <<"logger.warning", "not a controller">> >>

\* What validate_did_document logs when it stops at `step`.
DidDocumentLog(doc, step) ==
  CASE step = 0 -> ControllerWarning(doc, DocVerificationMethods(doc))
    [] step = 1 -> << <<"logger.error", "missing id">> >>
    [] step = 2 -> << <<"logger.error", "no verification methods">> >>
    [] step = 3 -> << <<"logger.error", "method missing required fields">> >>
    [] OTHER -> ControllerWarning(doc, DocVerificationMethods(doc))
                  \o << <<"logger.error", "non-existent service">> >>

ValidateDidDocumentAt(doc, step) ==
  Result(IF step = 0 THEN PyTrue ELSE PyFalse, DidDocumentLog(doc, step))

\* The call of validate_did_document: its result and its log.
ValidateDidDocumentCall(doc) == ValidateDidDocumentAt(doc, ValidateDidDocumentStep(doc))

\* The resolver: the document the registry holds for the DID, or None.
ResolveDid(reg, did_id) == reg[did_id]

NoKey == [none |-> TRUE, key |-> <<>>]

\* The key returned as published.
StripMultibaseKept(public_key) == public_key

\* public_key[1:] when it starts with 'z'
StripMultibase(public_key) ==
  IF StartsWithZ(public_key) THEN Tail(public_key) ELSE public_key

\* The first verification method that has a publicKeyMultibase.
RECURSIVE FirstKey(_, _)
FirstKey(vms, i) ==
  IF i > Len(vms) THEN NoKey
  ELSE IF "publicKeyMultibase" \in vms[i].has
    THEN [none |-> FALSE, key |-> StripMultibase(vms[i].publicKeyMultibase)]
  ELSE FirstKey(vms, i + 1)

\* `not did_document`: None, or a dict with no key.
DocFalsy(doc) == doc.none \/ doc.has = {}

\* get_public_key without the validation of the document.
GetPublicKeyOfUnvalidated(doc) ==
  IF DocFalsy(doc) THEN NoKey
  ELSE FirstKey(DocVerificationMethods(doc), 1)

GetPublicKeyOf(doc) ==
  IF DocFalsy(doc) THEN NoKey
  ELSE IF ~ValidateDidDocument(doc) THEN NoKey
  ELSE FirstKey(DocVerificationMethods(doc), 1)

GetPublicKey(reg, did_id) == GetPublicKeyOf(ResolveDid(reg, did_id))

\* What a caller of get_public_key gets: the key string, None, or the
\* TypeError of a call with a key id, an argument the method does not take.
NoKeyId == "None"
KeyResult(public_key) ==
  IF public_key.none THEN [kind |-> "None", key |-> <<>>]
  ELSE [kind |-> "str", key |-> public_key.key]
GetPublicKeyCall(reg, did_id, key_id) ==
  IF key_id # NoKeyId THEN Result([kind |-> PyRaise, key |-> <<>>], <<>>)
  ELSE Result(KeyResult(GetPublicKey(reg, did_id)), << <<"resolve_did", did_id>> >>)

\* SignatureVerifier.verify_signature as service.py calls it. `link` is the
\* class the name SignatureVerifier is bound to: service.py imports the one of
\* identity/signature.py, which defines no verify_signature (AttributeError);
\* the static method with this signature is the one of federation/signature.py.
CallVerifier(link, did_id, message, signature, public_key) ==
  IF link = "identity.signature"
    THEN Result(PyRaise, <<>>)
    ELSE Result(FedVerifySignature(message, signature, public_key),
                << <<"SignatureVerifier.verify_signature", did_id>> >>)

\* The trace `t` followed by the call `v`.
Prefixed(t, v) == Result(v.ret, t \o v.trace)

\* verify_signature once get_public_key has returned
VerifyWithKey(link, did_id, message, signature, public_key) ==
  IF public_key.none \/ public_key.key = <<>>
    THEN Result(PyFalse, << <<"resolve_did", did_id>> >>)
    ELSE Prefixed(<< <<"resolve_did", did_id>> >>,
                  CallVerifier(link, did_id, message, signature, public_key.key))

IdVerifySignature(reg, link, did_id, message, signature) ==
  VerifyWithKey(link, did_id, message, signature, GetPublicKey(reg, did_id))

\* verify_did without the validation of the document.
VerifyDidOfUnvalidated(doc) == ~doc.none

VerifyDidOf(doc) == ~doc.none /\ ValidateDidDocument(doc)
VerifyDid(reg, did_id) == VerifyDidOf(ResolveDid(reg, did_id))

(***************************************************************************)
(* consensus/validation.py: Validator                                      *)
(* Entities are objects: attrs is the set of attributes the object has.    *)
(***************************************************************************)

\* hasattr for every required field
ValidateTransactionFormat(transaction) ==
  {"id", "sender", "signature"} \subseteq transaction.attrs

ValidateProposalFormat(proposal) ==
  {"id", "proposer", "signature", "transactions"} \subseteq proposal.attrs

ValidateBlockFormat(block) ==
  {"height", "producer", "signature", "proposals"} \subseteq block.attrs

\* entity.get_message_for_signing(): the canonical bytes of the entity's signed
\* content; an object without the method raises AttributeError.
HasMessageForSigning(entity) == "get_message_for_signing" \in entity.attrs
GetMessageForSigning(entity) == entity.message

\* `v`, and when it returned True, `rest` after it.
AndThen(v, rest) ==
  IF v.ret # PyTrue THEN v ELSE Result(rest.ret, v.trace \o rest.trace)

\* The f-string of a log line reads entity.<field>: AttributeError when the
\* object has no such attribute.
LogWith(entity, field, r) == IF field \in entity.attrs THEN r ELSE PyRaise

\* One round of a loop over nested entities: `v` is the verdict on `entity`;
\* True goes on with `rest`, False logs entity.id and returns False.
LoopStep(entity, v, rest) ==
  IF v.ret = PyTrue THEN Result(rest.ret, v.trace \o rest.trace)
  ELSE IF v.ret = PyFalse THEN Result(LogWith(entity, "id", PyFalse), v.trace)
  ELSE v

\* validate_transaction with the verdict of verify_signature dropped.
ValidateTransactionUnverified(reg, link, transaction) ==
  IF ~ValidateTransactionFormat(transaction)
    THEN Result(PyFalse, << <<"validate_transaction", transaction.id>> >>)
  ELSE IF ~HasMessageForSigning(transaction)
    THEN Result(PyRaise, << <<"validate_transaction", transaction.id>> >>)
  ELSE Result(PyTrue, << <<"validate_transaction", transaction.id>> >>)

ValidateTransaction(reg, link, transaction) ==
  IF ~ValidateTransactionFormat(transaction)
    THEN Result(PyFalse, << <<"validate_transaction", transaction.id>> >>)
  ELSE IF ~HasMessageForSigning(transaction)
    THEN Result(PyRaise, << <<"validate_transaction", transaction.id>> >>)
  ELSE Prefixed(<< <<"validate_transaction", transaction.id>> >>,
                IdVerifySignature(reg, link, transaction.sender,
                                  GetMessageForSigning(transaction),
                                  transaction.signature))

\* for tx in proposal.transactions: the first one that does not validate ends
\* the loop (return False after the log line, or the exception it raised).
RECURSIVE ValidateTransactions(_, _, _, _)
ValidateTransactions(reg, link, txs, i) ==
  IF i > Len(txs) THEN Result(PyTrue, <<>>)
  ELSE LoopStep(txs[i], ValidateTransaction(reg, link, txs[i]),
                ValidateTransactions(reg, link, txs, i + 1))

\* validate_proposal without the loop over the transactions.
ValidateProposalNoTransactions(reg, link, proposal) ==
  IF ~ValidateProposalFormat(proposal)
    THEN Result(PyFalse, << <<"validate_proposal", proposal.id>> >>)
  ELSE IF ~HasMessageForSigning(proposal)
    THEN Result(PyRaise, << <<"validate_proposal", proposal.id>> >>)
  ELSE Prefixed(<< <<"validate_proposal", proposal.id>> >>,
                IdVerifySignature(reg, link, proposal.proposer,
                                  GetMessageForSigning(proposal),
                                  proposal.signature))

ValidateProposal(reg, link, proposal) ==
  IF ~ValidateProposalFormat(proposal)
    THEN Result(PyFalse, << <<"validate_proposal", proposal.id>> >>)
  ELSE IF ~HasMessageForSigning(proposal)
    THEN Result(PyRaise, << <<"validate_proposal", proposal.id>> >>)
  ELSE Prefixed(<< <<"validate_proposal", proposal.id>> >>,
                AndThen(IdVerifySignature(reg, link, proposal.proposer,
                                          GetMessageForSigning(proposal),
                                          proposal.signature),
                        ValidateTransactions(reg, link, proposal.transactions, 1)))

\* The loop over the proposals returning after the first one.
ValidateProposalsFirstOnly(reg, link, props, i) ==
  IF i > Len(props) THEN Result(PyTrue, <<>>)
  ELSE ValidateProposal(reg, link, props[i])

RECURSIVE ValidateProposals(_, _, _, _)
ValidateProposals(reg, link, props, i) ==
  IF i > Len(props) THEN Result(PyTrue, <<>>)
  ELSE LoopStep(props[i], ValidateProposal(reg, link, props[i]),
                ValidateProposals(reg, link, props, i + 1))

\* validate_block validating the proposals before the producer's signature.
ValidateBlockNestedFirst(reg, link, block) ==
  IF ~ValidateBlockFormat(block)
    THEN Result(PyFalse, << <<"validate_block", block.height>> >>)
  ELSE IF ~HasMessageForSigning(block)
    THEN Result(PyRaise, << <<"validate_block", block.height>> >>)
  ELSE Prefixed(<< <<"validate_block", block.height>> >>,
                AndThen(ValidateProposals(reg, link, block.proposals, 1),
                        IdVerifySignature(reg, link, block.producer,
                                          GetMessageForSigning(block),
                                          block.signature)))

ValidateBlock(reg, link, block) ==
  IF ~ValidateBlockFormat(block)
    THEN Result(PyFalse, << <<"validate_block", block.height>> >>)
  ELSE IF ~HasMessageForSigning(block)
    THEN Result(PyRaise, << <<"validate_block", block.height>> >>)
  ELSE Prefixed(<< <<"validate_block", block.height>> >>,
                AndThen(IdVerifySignature(reg, link, block.producer,
                                          GetMessageForSigning(block),
                                          block.signature),
                        ValidateProposals(reg, link, block.proposals, 1)))

(***************************************************************************)
(* Dict based pipeline: src/blockchain/validation.py (ValidationService),  *)
(* src/federation/federation.py, src/identity/identity_service.py.         *)
(* JSON values are tagged records; a dict keeps its items in insertion     *)
(* order.                                                                  *)
(***************************************************************************)

VStr(x) == [t |-> "str", s |-> x]
VInt(x) == [t |-> "int", s |-> x]
VList(elems) == [t |-> "list", xs |-> elems]
VDict(its) == [t |-> "dict", items |-> its]
\* A str holding the hex digits of a signature: `text` stands for the digits,
\* sig is what bytes.fromhex gives back.
VHexSig(text, sig) == [t |-> "str", s |-> text, sig |-> sig]
VBytes(sig) == [t |-> "bytes", sig |-> sig]
\* bytes.fromhex(x) succeeds
FromHexOk(x) == x.t = "str" /\ "sig" \in DOMAIN x
Item(key, val) == [k |-> key, v |-> val]

IsDict(d) == d.t = "dict"
DictKeys(d) == {d.items[i].k : i \in 1..Len(d.items)}
\* `key in d`; a TypeError when d is no container.
DictHas(d, key) == key \in DictKeys(d)
\* d.get(key): the value (keys are unique)
DictGet(d, key) == d.items[CHOOSE i \in 1..Len(d.items) : d.items[i].k = key].v

\* The keys of the model in Python's str order.
KeyOrder ==
  <<"amount", "blockData", "content", "id", "previousHash", "producer",
    "proposals", "proposer", "recipient", "signature", "signer", "timestamp",
    "transactions">>
KeyRank(key) == CHOOSE i \in 1..Len(KeyOrder) : KeyOrder[i] = key

\* The items left in insertion order.
SortItemsKept(its) == its

\* sorted(items) by key
RECURSIVE SortItems(_)
SortItems(its) ==
  IF Len(its) = 0 THEN <<>>
  ELSE LET m == CHOOSE i \in 1..Len(its) :
                  \A j \in 1..Len(its) : KeyRank(its[i].k) <= KeyRank(its[j].k)
           rest == [j \in 1..(Len(its) - 1) |-> IF j < m THEN its[j] ELSE its[j + 1]]
       IN <<its[m]>> \o SortItems(rest)

\* json.dumps raises TypeError on bytes.
RECURSIVE JsonSerializable(_)
JsonSerializable(v) ==
  CASE v.t = "bytes" -> FALSE
    [] v.t = "list" -> \A i \in 1..Len(v.xs) : JsonSerializable(v.xs[i])
    [] v.t = "dict" -> \A i \in 1..Len(v.items) : JsonSerializable(v.items[i].v)
    [] OTHER -> TRUE

\* json.dumps(data, sort_keys=True).encode('utf-8') as a token sequence
RECURSIVE JsonDumps(_)
RECURSIVE JsonList(_, _)
RECURSIVE JsonItems(_, _)
JsonDumps(v) ==
  CASE v.t = "str" -> <<"\"", v.s, "\"">>
    [] v.t = "int" -> <<v.s>>
    [] v.t = "list" -> <<"[">> \o JsonList(v.xs, 1) \o <<"]">>
    [] v.t = "dict" -> <<"{">> \o JsonItems(SortItems(v.items), 1) \o <<"}">>
    [] OTHER -> <<"null">>
JsonList(xs, i) ==
  IF i > Len(xs) THEN <<>>
  ELSE (IF i > 1 THEN <<",">> ELSE <<>>) \o JsonDumps(xs[i]) \o JsonList(xs, i + 1)
JsonItems(its, i) ==
  IF i > Len(its) THEN <<>>
  ELSE (IF i > 1 THEN <<",">> ELSE <<>>)
       \o <<"\"", its[i].k, "\"", ":">> \o JsonDumps(its[i].v)
       \o JsonItems(its, i + 1)

SerializeForVerification(data) == JsonDumps(data)

\* identity/signature.py calculate_fingerprint of a dict: the base64 text of the
\* SHA-256 digest of json.dumps(data, sort_keys=True).
CalculateFingerprint(data) == <<"b64">> \o Sha256(JsonDumps(data))

\* Hex codec (bytes.fromhex, PublicKey.from_hex).
HexIndex(c) ==
  CASE c = "0" -> 0
    [] c = "1" -> 1
    [] c = "2" -> 2
    [] c = "a" -> 10
    [] OTHER -> -1
HexValid(s) == Len(s) % 2 = 0 /\ \A i \in 1..Len(s) : HexIndex(s[i]) >= 0
RECURSIVE HexNum(_)
HexNum(s) ==
  IF Len(s) = 0 THEN 0
  ELSE HexNum(SubSeq(s, 1, Len(s) - 1)) * 16 + HexIndex(s[Len(s)])
RECURSIVE HexLeadingZeroBytes(_)
HexLeadingZeroBytes(s) ==
  IF Len(s) < 2 \/ s[1] # "0" \/ s[2] # "0" THEN 0
  ELSE 1 + HexLeadingZeroBytes(SubSeq(s, 3, Len(s)))
HexDecode(s) == [zeros |-> HexLeadingZeroBytes(s), num |-> HexNum(s)]

\* Hex strings of the key pairs of the dict based pipeline.
HexKeyA == <<"2", "a">>
HexKeyB == <<"a", "2">>
\* The byte strings PublicKey.from_hex accepts as public keys.
IcnPublicKeys == {HexDecode(HexKeyA), HexDecode(HexKeyB)}

\* signatures.sign(message, private_key) of the key pair of `hexkey`, as bytes.
IcnSign(hexkey, m) == [enc |-> "bytes", alg |-> "icn", by |-> HexDecode(hexkey), over |-> m]

\* keys.PublicKey.from_hex succeeds
PublicKeyFromHexOk(hex) == HexValid(hex) /\ HexDecode(hex) \in IcnPublicKeys

\* signatures.verify(message, signature, public_key)
IcnVerify(message, signature, keybytes) ==
  /\ signature.enc = "bytes"
  /\ signature.alg = "icn"
  /\ signature.by = keybytes
  /\ signature.over = message

\* Federation.verify_signature taking the last key of the document.
FederationVerifySignatureLastKey(message, signature, did_document) ==
  /\ "publicKey" \in did_document.has
  /\ Len(did_document.publicKey) > 0
  /\ "publicKeyHex" \in did_document.publicKey[Len(did_document.publicKey)].has
  /\ PublicKeyFromHexOk(did_document.publicKey[Len(did_document.publicKey)].publicKeyHex)
  /\ IcnVerify(message, signature,
               HexDecode(did_document.publicKey[Len(did_document.publicKey)].publicKeyHex))

\* Federation.verify_signature accepting a signature of any key of the document.
FederationVerifySignatureAnyKey(message, signature, did_document) ==
  /\ "publicKey" \in did_document.has
  /\ \E i \in 1..Len(did_document.publicKey) :
        /\ "publicKeyHex" \in did_document.publicKey[i].has
        /\ PublicKeyFromHexOk(did_document.publicKey[i].publicKeyHex)
        /\ IcnVerify(message, signature, HexDecode(did_document.publicKey[i].publicKeyHex))

\* src/federation/federation.py Federation.verify_signature: TRUE when it returns
\* True; it returns False otherwise (every exception is caught).
FederationVerifySignature(message, signature, did_document) ==
  /\ "publicKey" \in did_document.has
  /\ Len(did_document.publicKey) > 0
  /\ "publicKeyHex" \in did_document.publicKey[1].has
  /\ PublicKeyFromHexOk(did_document.publicKey[1].publicKeyHex)
  /\ IcnVerify(message, signature, HexDecode(did_document.publicKey[1].publicKeyHex))

\* The calls into icn_crypto and the errors logged by Federation.verify_signature.
FederationEventsEager(did_document) ==
  IF did_document.none THEN << <<"logging.error", "Signature verification failed">> >>
  ELSE << <<"keys.PublicKey.from_hex", "">>,
          <<"logging.error", "Signature verification failed">> >>

FederationEvents(did_document) ==
  IF did_document.none THEN << <<"logging.error", "Signature verification failed">> >>
  ELSE IF "publicKey" \notin did_document.has \/ Len(did_document.publicKey) = 0
    THEN << <<"logging.error", "DID document missing public key">> >>
  ELSE IF "publicKeyHex" \notin did_document.publicKey[1].has
    THEN << <<"logging.error", "Public key not found in expected format">> >>
  ELSE IF ~PublicKeyFromHexOk(did_document.publicKey[1].publicKeyHex)
    THEN << <<"keys.PublicKey.from_hex", "">>,
            <<"logging.error", "Signature verification failed">> >>
  ELSE << <<"keys.PublicKey.from_hex", "">>, <<"signatures.verify", "">> >>

\* A call of Federation.verify_signature: what it returns and what it did.
FederationVerifySignatureCall(message, signature, did_document) ==
  Result(PyBool(FederationVerifySignature(message, signature, did_document)),
         FederationEvents(did_document))

\* str.startswith("did:icn:") on the DIDs of the model
StartsWithDidIcn(did) == did \in {"did:icn:1", "did:icn:2", "did:icn:3"}

\* src/identity/identity_service.py IdentityService.validate_did_document
SvcValidateDidDocument(doc) ==
  /\ {"id", "publicKey"} \subseteq doc.has
  /\ StartsWithDidIcn(doc.id)
  /\ Len(doc.publicKey) > 0
  /\ \A i \in 1..Len(doc.publicKey) :
        /\ {"id", "publicKeyHex", "controller"} \subseteq doc.publicKey[i].has
        /\ PublicKeyFromHexOk(doc.publicKey[i].publicKeyHex)

\* identity_service.get_did_document(did): the resolver of the dict based pipeline
SvcNoDoc == [none |-> TRUE, has |-> {}, id |-> "", publicKey |-> <<>>]
GetDidDocument(sreg, did) ==
  IF did.t = "str" /\ did.s \in DOMAIN sreg THEN sreg[did.s] ELSE SvcNoDoc

DidText(did) == IF did.t = "str" THEN did.s ELSE "?"

\* The steps the three validators share once the document is there: validate
\* it, serialize, decode the signature, verify.
SvcVerifyWithDoc(doc, did, data, signature) ==
  IF doc.none \/ doc.has = {} THEN Result(PyFalse, << <<"get_did_document", DidText(did)>> >>)
  ELSE IF ~SvcValidateDidDocument(doc)
    THEN Result(PyFalse, << <<"get_did_document", DidText(did)>> >>)
  ELSE IF ~JsonSerializable(data)
    THEN Result(PyFalse, << <<"get_did_document", DidText(did)>> >>)
  ELSE IF ~FromHexOk(signature)
    THEN Result(PyFalse, << <<"get_did_document", DidText(did)>> >>)
  ELSE Result(PyBool(FederationVerifySignature(SerializeForVerification(data),
                                               signature.sig, doc)),
              << <<"get_did_document", DidText(did)>>,
                 <<"federation.verify_signature", DidText(did)>> >>)

SvcVerifySigned(sreg, did, data, signature) ==
  SvcVerifyWithDoc(GetDidDocument(sreg, did), did, data, signature)

SvcTxRequired == {"id", "signer", "content", "signature"}
SvcBlockRequired == {"id", "producer", "timestamp", "transactions", "signature"}
SvcProposalRequired == {"proposer", "blockData", "signature"}

\* ValidationService.validate_transaction; a transaction that is no dict
\* raises inside the try block.
SvcValidateTransaction(sreg, transaction) ==
  IF ~IsDict(transaction) THEN Result(PyFalse, <<>>)
  ELSE IF ~(SvcTxRequired \subseteq DictKeys(transaction)) THEN Result(PyFalse, <<>>)
  ELSE SvcVerifySigned(sreg, DictGet(transaction, "signer"),
                       DictGet(transaction, "content"),
                       DictGet(transaction, "signature"))

\* `v`, and when it returned True, `rest` after it; anything else is False.
SvcAndThen(v, rest) ==
  IF v.ret # PyTrue THEN Result(PyFalse, v.trace)
  ELSE Result(rest.ret, v.trace \o rest.trace)

\* for tx in transactions
RECURSIVE SvcValidateTransactions(_, _, _)
SvcValidateTransactions(sreg, txs, i) ==
  IF i > Len(txs) THEN Result(PyTrue, <<>>)
  ELSE SvcAndThen(SvcValidateTransaction(sreg, txs[i]),
                  SvcValidateTransactions(sreg, txs, i + 1))

\* block.get("transactions", []) iterated; a value that is no list raises.
SvcValidateListed(sreg, txs) ==
  IF txs.t # "list" THEN Result(PyFalse, <<>>)
  ELSE SvcValidateTransactions(sreg, txs.xs, 1)

\* The required fields only, without the signature.
WithoutSignatureRequiredOnly(block) ==
  VDict(SelectSeq(block.items,
                  LAMBDA it : it.k \in {"id", "producer", "timestamp", "transactions"}))

\* {k: v for k, v in block.items() if k != "signature"}
WithoutSignature(block) ==
  VDict(SelectSeq(block.items, LAMBDA it : it.k # "signature"))

\* ValidationService.validate_block
SvcValidateBlock(sreg, block) ==
  IF ~IsDict(block) THEN Result(PyFalse, <<>>)
  ELSE IF ~(SvcBlockRequired \subseteq DictKeys(block)) THEN Result(PyFalse, <<>>)
  ELSE SvcAndThen(SvcVerifySigned(sreg, DictGet(block, "producer"),
                                  WithoutSignature(block),
                                  DictGet(block, "signature")),
                  SvcValidateListed(sreg, DictGet(block, "transactions")))

\* ValidationService.validate_proposal
SvcValidateProposal(sreg, proposal) ==
  IF ~IsDict(proposal) THEN Result(PyFalse, <<>>)
  ELSE IF ~(SvcProposalRequired \subseteq DictKeys(proposal)) THEN Result(PyFalse, <<>>)
  ELSE SvcVerifySigned(sreg, DictGet(proposal, "proposer"),
                       DictGet(proposal, "blockData"),
                       DictGet(proposal, "signature"))

(***************************************************************************)
(* consensus/engine.py: ConsensusEngine                                    *)
(***************************************************************************)

\* The entity appended whenever the validator returned, whatever its verdict.
AdmissionUnchecked(entity, v) ==
  IF v.ret = PyRaise
    THEN [ret |-> PyRaise, trace |-> v.trace, append |-> FALSE]
    ELSE [ret |-> LogWith(entity, "id", v.ret), trace |-> v.trace, append |-> TRUE]

\* What add_transaction and add_proposal do with the validator's verdict `v`:
\* append and log on True, log on False.
Admission(entity, v) ==
  IF v.ret = PyTrue
    THEN [ret |-> LogWith(entity, "id", PyTrue), trace |-> v.trace, append |-> TRUE]
  ELSE IF v.ret = PyFalse
    THEN [ret |-> LogWith(entity, "id", PyFalse), trace |-> v.trace, append |-> FALSE]
  ELSE [ret |-> PyRaise, trace |-> v.trace, append |-> FALSE]

AddTransactionCall(reg, link, transaction) ==
  Admission(transaction, ValidateTransaction(reg, link, transaction))

AddProposalCall(reg, link, proposal) ==
  Admission(proposal, ValidateProposal(reg, link, proposal))

EngineValidateBlockCall(reg, link, block) == ValidateBlock(reg, link, block)

\* What add_block does with validate_block's verdict `v`.
BlockAdmission(block, v) ==
  IF v.ret = PyRaise THEN v ELSE Result(LogWith(block, "height", v.ret), v.trace)

AddBlockCall(reg, link, block) ==
  BlockAdmission(block, EngineValidateBlockCall(reg, link, block))

(***************************************************************************)
(* Inputs of the model.                                                    *)
(***************************************************************************)

SeqUpTo(S, n) == UNION {[1..k -> S] : k \in 0..n}

D1 == "did:x:1"
D2 == "did:x:2"
D3 == "did:x:3"
DIDs == {D1, D2, D3}

NoEndpoint == [isList |-> TRUE, refs |-> <<>>]
Vm(did, type, controller, multibase) ==
  [has |-> VmRequired, id |-> did, type |-> type, controller |-> controller,
   publicKeyMultibase |-> multibase, serviceEndpoint |-> NoEndpoint]
Doc(did, vms, services) ==
  [none |-> FALSE, has |-> {"id", "verificationMethod", "service"}, id |-> did,
   verificationMethod |-> vms, service |-> services]
NoneDoc ==
  [none |-> TRUE, has |-> {}, id |-> "", verificationMethod |-> <<>>, service |-> <<>>]
Multibase(key) == <<"z">> \o key

\* What the resolver may hold.
RegA ==
  [d \in DIDs |->
     CASE d = D1 -> Doc(D1, <<Vm("k1", "Ed25519VerificationKey2018", D1, Multibase(KeyA))>>, <<>>)
       [] d = D2 -> Doc(D2, <<Vm("k1", "Ed25519", D2, Multibase(KeyB)),
                              Vm("k2", "RSA", D2, Multibase(KeyA))>>, <<"svc1">>)
       [] OTHER -> NoneDoc]
RegB ==
  [d \in DIDs |->
     CASE d = D1 -> Doc(D1, <<Vm("k1", "EcdsaSecp256k1VerificationKey2019", D1, Multibase(KeyZ))>>, <<>>)
       [] d = D2 -> Doc(D2, <<[Vm("k1", "Ed25519", D2, Multibase(KeyB))
                                EXCEPT !.has = @ \cup {"serviceEndpoint"},
                                       !.serviceEndpoint = [isList |-> TRUE, refs |-> <<"svc1", "svc9">>]]>>,
                            <<"svc1">>)
       [] OTHER -> Doc(D3, <<Vm("k1", "Ed25519", D1, KeyA)>>, <<>>)]
RegC ==
  [d \in DIDs |->
     CASE d = D1 -> Doc(D1, <<>>, <<>>)
       [] d = D2 -> Doc(D2, <<Vm("k1", "Ed25519", D2, <<"z">>)>>, <<>>)
       [] OTHER -> Doc(D3, <<[Vm("k1", "Ed25519", D3, Multibase(KeyA))
                               EXCEPT !.has = @ \ {"type"}]>>, <<>>)]
RegD ==
  [d \in DIDs |->
     CASE d = D1 -> [Doc("", <<Vm("k1", "Ed25519", D1, Multibase(KeyA))>>, <<>>)
                      EXCEPT !.has = @ \ {"id"}]
       [] d = D2 -> Doc(D2, <<Vm("k1", "RSA", D2, <<"0", "a">>)>>, <<>>)
       [] OTHER -> Doc(D3, <<[Vm("k1", "Ed25519", D3, Multibase(KeyA))
                               EXCEPT !.has = @ \cup {"serviceEndpoint"},
                                      !.serviceEndpoint = [isList |-> FALSE, refs |-> <<"svc9">>]]>>,
                            <<"svc1">>)]
Registries == {RegA, RegB, RegC, RegD}

\* Documents given to validate_did_document directly.
WithEndpoint(vm, isList, refs) ==
  [vm EXCEPT !.has = @ \cup {"serviceEndpoint"},
             !.serviceEndpoint = [isList |-> isList, refs |-> refs]]
MethodVariants ==
  {Vm("k1", "Ed25519", D1, Multibase(KeyA)),
   Vm("k2", "Ed25519", D2, Multibase(KeyB)),
   [Vm("k3", "Ed25519", D1, Multibase(KeyA)) EXCEPT !.has = @ \ {"type"}],
   [Vm("k4", "Ed25519", D1, Multibase(KeyA)) EXCEPT !.has = @ \ {"publicKeyMultibase"}],
   WithEndpoint(Vm("k5", "Ed25519", D1, Multibase(KeyA)), TRUE, <<"svc1">>),
   WithEndpoint(Vm("k6", "Ed25519", D1, Multibase(KeyA)), TRUE, <<"svc1", "svc9">>),
   WithEndpoint(Vm("k7", "Ed25519", D1, Multibase(KeyA)), FALSE, <<"svc1">>),
   WithEndpoint(Vm("k8", "Ed25519", D1, Multibase(KeyA)), FALSE, <<"svc9">>),
   WithEndpoint(Vm("k9", "Ed25519", D1, Multibase(KeyA)), FALSE, <<"">>)}
DocHead == Doc(D1, <<>>, <<>>)
\* Heads that lack a field or carry an empty id.
DocHeads ==
  {Doc("", <<>>, <<>>),
   [Doc("", <<>>, <<>>) EXCEPT !.has = @ \ {"id"}],
   [Doc(D1, <<>>, <<>>) EXCEPT !.has = @ \ {"service"}],
   [Doc(D1, <<>>, <<>>) EXCEPT !.has = @ \ {"verificationMethod"}]}
\* Documents with every field carry up to MaxMethods methods; the others carry at
\* most one, which is enough for a later check to fail next to the earlier one.
DocUniverse ==
  {[h EXCEPT !.verificationMethod = vms, !.service = services] :
     h \in {DocHead}, vms \in SeqUpTo(MethodVariants, MaxMethods),
     services \in {<<>>, <<"svc1">>}}
  \cup
  {[h EXCEPT !.verificationMethod = vms, !.service = services] :
     h \in DocHeads, vms \in SeqUpTo(MethodVariants, 1),
     services \in {<<>>, <<"svc1">>}}

\* The class the name SignatureVerifier of identity/service.py is bound to.
VerifierClasses == {"identity.signature", "federation.signature"}

M1 == <<"m1">>
M2 == <<"m2">>
Signatures ==
  {EcSign(KeyA, M1), EcSignB58(KeyB, M1), EcSign(KeyZ, M1), EcSign(KeyShort, M1),
   EdSign(KeyA, M1), BadStrSig, GarbageSig}

\* What the signature verifiers are called with directly.
SigSignatures ==
  {EdSign64(Key64, M1), EdSignStr64(Key64, M1), RsaSign(KeyRsa64, M1), EcSign(KeyA, M1),
   EcSignB58(KeyB, M1), BadStrSig, GarbageSig}
SigKeys == {Key64, KeyRsa64, KeyA, KeyB, Multibase(KeyA), <<"0", "a">>}
SigTags == {"Ed25519", "ed25519", "RSA", "RSA-SHA256", "EC-SHA256", "unknown", NonStringTag}

TxAttrs == {"id", "sender", "signature", "get_message_for_signing"}
Tx(attrs, id, sender, message, signature) ==
  [attrs |-> attrs, id |-> id, sender |-> sender, message |-> message,
   signature |-> signature]
Tx1 == Tx(TxAttrs, "tx1", D1, M1, EcSign(KeyA, M1))
\* Tx1 with a corrupted signature
Tx2 == Tx(TxAttrs, "tx1", D1, M1, GarbageSig)
Tx3 == Tx(TxAttrs, "tx3", D2, M1, EcSignB58(KeyB, M1))
Tx4 == Tx(TxAttrs \ {"id"}, "", D1, M1, EcSign(KeyA, M1))
Tx5 == Tx(TxAttrs \ {"get_message_for_signing"}, "tx5", D1, M1, EcSign(KeyA, M1))
Tx6 == Tx(TxAttrs, "tx6", D3, M2, EcSign(KeyA, M2))
Tx7 == Tx(TxAttrs, "tx7", D1, M2, EcSign(KeyA, M1))
TxUniverse == {Tx1, Tx2, Tx3, Tx4, Tx5, Tx6, Tx7}

ProposalAttrs == {"id", "proposer", "signature", "transactions", "get_message_for_signing"}
Proposal(attrs, id, proposer, message, signature, txs) ==
  [attrs |-> attrs, id |-> id, proposer |-> proposer, message |-> message,
   signature |-> signature, transactions |-> txs]
ProposalHeads ==
  {Proposal(ProposalAttrs, "p1", D1, <<"p1">>, EcSign(KeyA, <<"p1">>), <<>>),
   Proposal(ProposalAttrs, "p2", D2, <<"p2">>, EcSign(KeyA, <<"p2">>), <<>>),
   Proposal(ProposalAttrs \ {"id"}, "", D1, <<"p1">>, EcSign(KeyA, <<"p1">>), <<>>),
   Proposal(ProposalAttrs \ {"get_message_for_signing"}, "p4", D1, <<"p1">>, EcSign(KeyA, <<"p1">>), <<>>),
   Proposal(ProposalAttrs \ {"transactions"}, "p5", D1, <<"p1">>, EcSign(KeyA, <<"p1">>), <<>>)}
ProposalUniverse ==
  {[h EXCEPT !.transactions = txs] : h \in ProposalHeads, txs \in SeqUpTo(TxUniverse, MaxNested)}

P1(txs) == Proposal(ProposalAttrs, "p1", D1, <<"p1">>, EcSign(KeyA, <<"p1">>), txs)
P2(txs) == Proposal(ProposalAttrs, "p2", D2, <<"p2">>, EcSign(KeyA, <<"p2">>), txs)
P3(txs) == Proposal(ProposalAttrs, "p3", D2, <<"p3">>, EcSign(KeyB, <<"p3">>), txs)
\* A proposal without the attribute id.
PNoId(txs) == Proposal(ProposalAttrs \ {"id"}, "", D1, <<"p1">>, EcSign(KeyA, <<"p1">>), txs)
BlockProposals ==
  {P1(<<>>), P1(<<Tx1>>), P1(<<Tx1, Tx2>>), P1(<<Tx5>>), P1(<<Tx4>>), P2(<<Tx1>>),
   P3(<<Tx3>>), PNoId(<<Tx1>>)}

BlockAttrs == {"height", "producer", "signature", "proposals", "get_message_for_signing"}
Block(attrs, height, producer, message, signature, props) ==
  [attrs |-> attrs, height |-> height, producer |-> producer, message |-> message,
   signature |-> signature, proposals |-> props]
BlockHeads ==
  {Block(BlockAttrs, "1", D1, <<"b1">>, EcSign(KeyA, <<"b1">>), <<>>),
   Block(BlockAttrs, "2", D1, <<"b2">>, EcSign(KeyB, <<"b2">>), <<>>),
   Block(BlockAttrs \ {"height"}, "", D1, <<"b1">>, EcSign(KeyA, <<"b1">>), <<>>),
   Block(BlockAttrs \ {"get_message_for_signing"}, "4", D1, <<"b1">>, EcSign(KeyA, <<"b1">>), <<>>)}
BlockUniverse ==
  {[h EXCEPT !.proposals = ps] : h \in BlockHeads, ps \in SeqUpTo(BlockProposals, MaxNested)}

\* What the engine is offered.
EngineTxs == TxUniverse
EngineProposals ==
  {P1(<<>>), P1(<<Tx1>>), P1(<<Tx1, Tx2>>), P1(<<Tx5>>), P1(<<Tx4>>), P2(<<Tx1>>),
   P3(<<Tx3>>), PNoId(<<Tx1>>),
   Proposal(ProposalAttrs \ {"id"}, "", D1, <<"p1">>, GarbageSig, <<Tx1>>)}
EngineBlocks ==
  {[h EXCEPT !.proposals = ps] : h \in BlockHeads,
                                  ps \in {<<>>, <<P1(<<Tx1>>)>>, <<P1(<<Tx1>>), P1(<<Tx1, Tx2>>)>>,
                                          <<P1(<<Tx1>>), PNoId(<<Tx1>>)>>}}

\* Inputs of the dict based pipeline.
S1 == "did:icn:1"
S2 == "did:icn:2"
SX == "did:x:1"
SvcKey(id, controller, hex) ==
  [has |-> {"id", "type", "controller", "publicKeyHex"}, id |-> id,
   controller |-> controller, publicKeyHex |-> hex]
SvcDoc(did, pks) == [none |-> FALSE, has |-> {"id", "publicKey"}, id |-> did, publicKey |-> pks]
SRegA ==
  [d \in {S1, S2, SX} |->
     CASE d = S1 -> SvcDoc(S1, <<SvcKey("k1", S1, HexKeyA)>>)
       [] d = S2 -> SvcDoc(S2, <<SvcKey("k1", S2, <<"z", "z">>)>>)
       [] OTHER -> SvcDoc(SX, <<SvcKey("k1", SX, HexKeyA)>>)]
SRegB ==
  [d \in {S1, S2, SX} |->
     CASE d = S1 -> SvcDoc(S1, <<SvcKey("k1", S1, HexKeyB), SvcKey("k2", S1, HexKeyA)>>)
       [] d = S2 -> [SvcDoc(S2, <<>>) EXCEPT !.has = {"id"}]
       [] OTHER -> SvcNoDoc]
SRegistries == {SRegA, SRegB}

\* What Federation.verify_signature is called with directly.
FedDocs ==
  {SvcDoc(S1, <<SvcKey("k1", S1, HexKeyA)>>),
   SvcDoc(S1, <<SvcKey("k1", S1, HexKeyB)>>),
   SvcDoc(S1, <<SvcKey("k1", S1, HexKeyA), SvcKey("k2", S1, HexKeyB)>>),
   SvcDoc(S1, <<SvcKey("k1", S1, HexKeyB), SvcKey("k2", S1, HexKeyA)>>),
   SvcDoc(S1, <<SvcKey("k1", S1, <<"z", "z">>)>>),
   \* {"id": did}
   [SvcDoc(S1, <<>>) EXCEPT !.has = {"id"}],
   SvcDoc(S1, <<>>),
   SvcDoc(S1, <<[SvcKey("k1", S1, HexKeyA) EXCEPT !.has = @ \ {"publicKeyHex"}],
                SvcKey("k2", S1, HexKeyA)>>),
   SvcNoDoc}
FedMessages == {M1, M2}
FedSignatures ==
  {IcnSign(HexKeyA, M1), IcnSign(HexKeyB, M1), IcnSign(HexKeyA, M2), IcnSign(HexKeyB, M2),
   BadStrSig, GarbageSig}

Content1 == VDict(<<Item("amount", VInt("100")), Item("recipient", VStr("user123"))>>)
\* Content1 with its fields in the other order
Content1r == VDict(<<Item("recipient", VStr("user123")), Item("amount", VInt("100"))>>)
Content2 == VDict(<<Item("amount", VInt("900")), Item("recipient", VStr("user123"))>>)

STx(id, signer, content, signature) ==
  VDict(<<Item("id", VStr(id)), Item("signer", signer), Item("content", content),
          Item("signature", signature)>>)
SigC1 == VHexSig("sigC1", IcnSign(HexKeyA, SerializeForVerification(Content1)))
STx1 == STx("tx1", VStr(S1), Content1, SigC1)
STx2 == STx("tx2", VStr(S1), Content1r, SigC1)
STx3 == STx("tx3", VStr(S1), Content2, SigC1)
STx4 == VDict(<<Item("id", VStr("tx4")), Item("signer", VStr(S1)), Item("signature", SigC1)>>)
STx5 == STx("tx5", VStr(S1), Content1, VStr("nothex"))
STx6 == STx("tx6", VStr(S2), Content1, SigC1)
STx7 == VStr("tx7")
STx8 == STx("tx8", VStr(SX), Content1, SigC1)
STx9 == STx("tx9", VStr(S1), VBytes(GarbageSig), SigC1)
SvcTxUniverse == {STx1, STx2, STx3, STx4, STx5, STx6, STx7, STx8, STx9}
SvcNestedTxs == {STx1, STx2, STx3, STx7}

\* A block signed by the key pair of `hexkey` over everything but the signature.
SBlockData(id, producer, txs, extra) ==
  VDict(<<Item("id", VStr(id)), Item("producer", VStr(producer)),
          Item("timestamp", VStr("2023-05-01T12:00:00Z")),
          Item("transactions", VList(txs))>> \o extra)
SBlockSigned(data, hexkey) ==
  VDict(data.items \o
        <<Item("signature",
               VHexSig("sigB", IcnSign(hexkey, SerializeForVerification(data))))>>)
PrevHash == <<Item("previousHash", VStr("0000000000000000"))>>
SvcBlockUniverse ==
  UNION {
    {SBlockSigned(SBlockData("b1", S1, txs, PrevHash), HexKeyA),
     SBlockSigned(SBlockData("b1", S1, txs, <<>>), HexKeyB),
     \* signed without the previousHash the block carries
     VDict(SBlockData("b1", S1, txs, PrevHash).items \o
           <<Item("signature",
                  VHexSig("sigB", IcnSign(HexKeyA,
                     SerializeForVerification(SBlockData("b1", S1, txs, <<>>)))))>>),
     \* no timestamp
     VDict(<<Item("id", VStr("b4")), Item("producer", VStr(S1)),
             Item("transactions", VList(txs)), Item("signature", SigC1)>>)}
    : txs \in SeqUpTo(SvcNestedTxs, MaxNested)}

\* Proposals: with blockData, and optionally the id and transactions of the
\* data model.
SProposal(head, txs, hexkey) ==
  LET data == VDict(<<Item("transactions", VList(txs))>>) IN
  VDict(head \o
        <<Item("proposer", VStr(S1)), Item("blockData", data),
          Item("signature",
               VHexSig("sigP", IcnSign(hexkey, SerializeForVerification(data))))>>)
SvcProposalUniverse ==
  UNION {
    {SProposal(<<>>, txs, HexKeyA),
     SProposal(<<>>, txs, HexKeyB),
     SProposal(<<Item("id", VStr("p1")), Item("transactions", VList(txs))>>, txs, HexKeyA),
     \* the shape of the data model: no blockData
     VDict(<<Item("id", VStr("p1")), Item("proposer", VStr(S1)),
             Item("transactions", VList(txs)),
             Item("signature",
                  VHexSig("sigP", IcnSign(HexKeyA,
                     SerializeForVerification(VDict(<<Item("transactions", VList(txs))>>)))))>>)}
    : txs \in SeqUpTo(SvcNestedTxs, MaxNested)}

(***************************************************************************)
(* State.                                                                  *)
(***************************************************************************)
VARIABLES
  registry,              \* what resolve_did returns, per DID
  sregistry,             \* what get_did_document returns, per DID
  signature_verifier,    \* the class SignatureVerifier names in identity/service.py
  pending_transactions,  \* ConsensusEngine.pending_transactions
  pending_proposals,     \* ConsensusEngine.pending_proposals
  current_block,         \* ConsensusEngine.current_block
  pc,                    \* "idle", or "returned" when a call has returned
  call,                  \* the call that returned: [op, arg]
  ret,                   \* what it returned
  trace,                 \* the calls it made
  pre_transactions,      \* pending_transactions when the call was made
  pre_proposals,         \* pending_proposals when the call was made
  threads                \* the concurrent add_transaction calls, per thread

vars ==
  <<registry, sregistry, signature_verifier, pending_transactions, pending_proposals,
    current_block, pc, call, ret, trace, pre_transactions, pre_proposals, threads>>

env == <<registry, sregistry, signature_verifier>>
pools == <<pending_transactions, pending_proposals, current_block>>

NoCall == [op |-> "none", arg |-> <<>>]

\* A thread that has not called yet. `seq` counts the calls that were
\* validated before this one.
Threads == 1..NThreads
ThreadReady == [pc |-> "ready", tx |-> Tx1, verdict |-> "None", ret |-> "None", seq |-> 0]

Init ==
  /\ registry \in Registries
  /\ sregistry \in SRegistries
  /\ signature_verifier \in VerifierClasses
  /\ pending_transactions = <<>>
  /\ pending_proposals = <<>>
  /\ current_block = "None"
  /\ pc = "idle"
  /\ call = NoCall
  /\ ret = "None"
  /\ trace = <<>>
  /\ pre_transactions = <<>>
  /\ pre_proposals = <<>>
  /\ threads = [t \in Threads |-> ThreadReady]

\* A call returns: the observation of it.
Returned(op, arg, r, t) ==
  /\ pc' = "returned"
  /\ call' = [op |-> op, arg |-> arg]
  /\ ret' = r
  /\ trace' = t
  /\ pre_transactions' = pending_transactions
  /\ pre_proposals' = pending_proposals
  /\ threads' = threads

\* add_transaction refusing a transaction the pool already holds.
AddTransactionOnce(transaction) ==
  LET c == AddTransactionCall(registry, signature_verifier, transaction)
      held == \E i \in 1..Len(pending_transactions) : pending_transactions[i] = transaction
  IN
  /\ pc = "idle"
  /\ c.append => Len(pending_transactions) < MaxPool
  /\ pending_transactions' =
       IF c.append /\ ~held THEN Append(pending_transactions, transaction)
       ELSE pending_transactions
  /\ Returned("add_transaction", transaction, IF held THEN PyFalse ELSE c.ret, c.trace)
  /\ UNCHANGED <<env, pending_proposals, current_block>>

\* add_transaction with the entry put in front of the pool.
AddTransactionInFront(transaction) ==
  LET c == AddTransactionCall(registry, signature_verifier, transaction) IN
  /\ pc = "idle"
  /\ c.append => Len(pending_transactions) < MaxPool
  /\ pending_transactions' =
       IF c.append THEN <<transaction>> \o pending_transactions ELSE pending_transactions
  /\ Returned("add_transaction", transaction, c.ret, c.trace)
  /\ UNCHANGED <<env, pending_proposals, current_block>>

AddTransaction(transaction) ==
  LET c == AddTransactionCall(registry, signature_verifier, transaction) IN
  /\ pc = "idle"
  /\ c.append => Len(pending_transactions) < MaxPool
  /\ pending_transactions' =
       IF c.append THEN Append(pending_transactions, transaction) ELSE pending_transactions
  /\ Returned("add_transaction", transaction, c.ret, c.trace)
  /\ UNCHANGED <<env, pending_proposals, current_block>>

AddProposal(proposal) ==
  LET c == AddProposalCall(registry, signature_verifier, proposal) IN
  /\ pc = "idle"
  /\ c.append => Len(pending_proposals) < MaxPool
  /\ pending_proposals' =
       IF c.append THEN Append(pending_proposals, proposal) ELSE pending_proposals
  /\ Returned("add_proposal", proposal, c.ret, c.trace)
  /\ UNCHANGED <<env, pending_transactions, current_block>>

EngineValidateBlock(block) ==
  LET c == EngineValidateBlockCall(registry, signature_verifier, block) IN
  /\ pc = "idle"
  /\ Returned("validate_block", block, c.ret, c.trace)
  /\ UNCHANGED <<env, pools>>

AddBlock(block) ==
  LET c == AddBlockCall(registry, signature_verifier, block) IN
  /\ pc = "idle"
  /\ Returned("add_block", block, c.ret, c.trace)
  /\ UNCHANGED <<env, pools>>

\* create_block is a placeholder: it returns None and touches nothing.
CreateBlock(producer_did) ==
  /\ pc = "idle"
  /\ Returned("create_block", producer_did, "None", <<>>)
  /\ UNCHANGED <<env, pools>>

\* The caller takes the result.
Return ==
  /\ pc = "returned"
  /\ pc' = "idle"
  /\ call' = NoCall
  /\ ret' = "None"
  /\ trace' = <<>>
  /\ pre_transactions' = pending_transactions
  /\ pre_proposals' = pending_proposals
  /\ UNCHANGED <<env, pools, threads>>

\* The resolver's backend changes what it holds.
ResolverUpdate ==
  /\ pc = "idle"
  /\ registry' \in Registries \ {registry}
  /\ UNCHANGED <<sregistry, signature_verifier, pools, pc, call, ret, trace,
                 pre_transactions, pre_proposals, threads>>

Next ==
  \/ \E transaction \in EngineTxs : AddTransaction(transaction)
  \/ \E proposal \in EngineProposals : AddProposal(proposal)
  \/ \E block \in EngineBlocks : EngineValidateBlock(block)
  \/ \E block \in EngineBlocks : AddBlock(block)
  \/ \E producer_did \in DIDs : CreateBlock(producer_did)
  \/ Return
  \/ ResolverUpdate

Spec == Init /\ [][Next]_vars

\* The validators and the identity service called on their own.
CallValidateTransaction(transaction) ==
  LET c == ValidateTransaction(registry, signature_verifier, transaction) IN
  /\ pc = "idle"
  /\ Returned("Validator.validate_transaction", transaction, c.ret, c.trace)
  /\ UNCHANGED <<env, pools>>

CallValidateProposal(proposal) ==
  LET c == ValidateProposal(registry, signature_verifier, proposal) IN
  /\ pc = "idle"
  /\ Returned("Validator.validate_proposal", proposal, c.ret, c.trace)
  /\ UNCHANGED <<env, pools>>

CallValidateBlock(block) ==
  LET c == ValidateBlock(registry, signature_verifier, block) IN
  /\ pc = "idle"
  /\ Returned("Validator.validate_block", block, c.ret, c.trace)
  /\ UNCHANGED <<env, pools>>

CallVerifySignature(did_id, message, signature) ==
  LET c == IdVerifySignature(registry, signature_verifier, did_id, message, signature) IN
  /\ pc = "idle"
  /\ Returned("IdentityService.verify_signature",
              [did |-> did_id, message |-> message, signature |-> signature],
              c.ret, c.trace)
  /\ UNCHANGED <<env, pools>>

CallSigVerify(message, signature, public_key, key_type) ==
  /\ pc = "idle"
  /\ Returned("SignatureVerifier.verify",
              [message |-> message, signature |-> signature,
               public_key |-> public_key, key_type |-> key_type],
              IdSigVerify(message, signature, public_key, key_type), <<>>)
  /\ UNCHANGED <<env, pools>>

CallFedVerifySignature(message, signature, public_key) ==
  /\ pc = "idle"
  /\ Returned("SignatureVerifier.verify_signature",
              [message |-> message, signature |-> signature, public_key |-> public_key],
              FedVerifySignature(message, signature, public_key), <<>>)
  /\ UNCHANGED <<env, pools>>

CallGetPublicKey(did_id, key_id) ==
  LET c == GetPublicKeyCall(registry, did_id, key_id) IN
  /\ pc = "idle"
  /\ Returned("IdentityService.get_public_key",
              [did |-> did_id, key_id |-> key_id], c.ret, c.trace)
  /\ UNCHANGED <<env, pools>>

CallVerifyDid(did_id) ==
  /\ pc = "idle"
  /\ Returned("IdentityService.verify_did", did_id,
              PyBool(VerifyDid(registry, did_id)), << <<"resolve_did", did_id>> >>)
  /\ UNCHANGED <<env, pools>>

CallValidateDidDocument(doc) ==
  LET c == ValidateDidDocumentCall(doc) IN
  /\ pc = "idle"
  /\ Returned("IdentityService.validate_did_document", doc, c.ret, c.trace)
  /\ UNCHANGED <<env, pools>>

CallFederationVerifySignature(message, signature, did_document) ==
  LET c == FederationVerifySignatureCall(message, signature, did_document) IN
  /\ pc = "idle"
  /\ Returned("Federation.verify_signature",
              [message |-> message, signature |-> signature, did_document |-> did_document],
              c.ret, c.trace)
  /\ UNCHANGED <<env, pools>>

CallSvcValidateTransaction(transaction) ==
  LET c == SvcValidateTransaction(sregistry, transaction) IN
  /\ pc = "idle"
  /\ Returned("ValidationService.validate_transaction", transaction, c.ret, c.trace)
  /\ UNCHANGED <<env, pools>>

CallSvcValidateBlock(block) ==
  LET c == SvcValidateBlock(sregistry, block) IN
  /\ pc = "idle"
  /\ Returned("ValidationService.validate_block", block, c.ret, c.trace)
  /\ UNCHANGED <<env, pools>>

CallSvcValidateProposal(proposal) ==
  LET c == SvcValidateProposal(sregistry, proposal) IN
  /\ pc = "idle"
  /\ Returned("ValidationService.validate_proposal", proposal, c.ret, c.trace)
  /\ UNCHANGED <<env, pools>>

NextValidators ==
  \/ \E transaction \in TxUniverse : CallValidateTransaction(transaction)
  \/ \E proposal \in ProposalUniverse : CallValidateProposal(proposal)
  \/ \E block \in BlockUniverse : CallValidateBlock(block)
  \/ \E block \in BlockUniverse : AddBlock(block)
  \/ \E did_id \in DIDs, message \in {M1, M2}, signature \in Signatures :
       CallVerifySignature(did_id, message, signature)
  \/ \E message \in {M1, M2}, signature \in SigSignatures, public_key \in SigKeys,
        key_type \in SigTags :
       CallSigVerify(message, signature, public_key, key_type)
  \/ \E message \in {M1, M2}, signature \in SigSignatures, public_key \in SigKeys :
       CallFedVerifySignature(message, signature, public_key)
  \/ \E did_id \in DIDs : CallVerifyDid(did_id)
  \/ \E did_id \in DIDs, key_id \in {NoKeyId, "k1", "k2"} : CallGetPublicKey(did_id, key_id)
  \/ \E doc \in DocUniverse : CallValidateDidDocument(doc)
  \/ \E message \in FedMessages, signature \in FedSignatures, did_document \in FedDocs :
       CallFederationVerifySignature(message, signature, did_document)
  \/ \E transaction \in SvcTxUniverse : CallSvcValidateTransaction(transaction)
  \/ \E block \in SvcBlockUniverse : CallSvcValidateBlock(block)
  \/ \E proposal \in SvcProposalUniverse : CallSvcValidateProposal(proposal)
  \/ Return

SpecValidators == Init /\ [][NextValidators]_vars

(***************************************************************************)
(* add_transaction called from several threads. The statements of one call *)
(* run in order; between two of them any other thread may run.             *)
(***************************************************************************)

sequential == <<pc, call, ret, trace, pre_transactions, pre_proposals>>

\* What the threads submit.
ConcurrentTxs == {Tx1, Tx2, Tx3, Tx4}

\* if self.validator.validate_transaction(transaction):
ThreadValidate(t, transaction) ==
  /\ threads[t].pc = "ready"
  /\ threads' = [threads EXCEPT ![t] =
       [pc |-> "validated", tx |-> transaction,
        verdict |-> ValidateTransaction(registry, signature_verifier, transaction).ret,
        ret |-> "None",
        seq |-> Cardinality({u \in Threads : threads[u].pc # "ready"})]]
  /\ UNCHANGED <<env, pools, sequential>>

\* The append with a write that is lost while another call is between its
\* append and its return.
ThreadAppendLossy(t) ==
  /\ threads[t].pc = "validated"
  /\ threads[t].verdict = PyTrue
  /\ pending_transactions' =
       IF \E u \in Threads \ {t} : threads[u].pc = "appended"
         THEN pending_transactions
         ELSE Append(pending_transactions, threads[t].tx)
  /\ threads' = [threads EXCEPT ![t].pc = "appended"]
  /\ UNCHANGED <<env, pending_proposals, current_block, sequential>>

\* self.pending_transactions.append(transaction): one step of the list.
ThreadAppend(t) ==
  /\ threads[t].pc = "validated"
  /\ threads[t].verdict = PyTrue
  /\ pending_transactions' = Append(pending_transactions, threads[t].tx)
  /\ threads' = [threads EXCEPT ![t].pc = "appended"]
  /\ UNCHANGED <<env, pending_proposals, current_block, sequential>>

\* The log line and the return, or the exception of the validator.
ThreadReturn(t) ==
  /\ \/ threads[t].pc = "appended"
     \/ threads[t].pc = "validated" /\ threads[t].verdict # PyTrue
  /\ threads' = [threads EXCEPT
       ![t].pc = "done",
       ![t].ret = IF threads[t].verdict = PyRaise THEN PyRaise
                  ELSE LogWith(threads[t].tx, "id", threads[t].verdict)]
  /\ UNCHANGED <<env, pools, sequential>>

NextConcurrent ==
  \/ \E t \in Threads, transaction \in ConcurrentTxs : ThreadValidate(t, transaction)
  \/ \E t \in Threads : ThreadAppend(t)
  \/ \E t \in Threads : ThreadReturn(t)
  \/ ResolverUpdate

SpecConcurrent == Init /\ [][NextConcurrent]_vars

(***************************************************************************)
(* Properties.                                                             *)
(***************************************************************************)

ReturnedFrom(ops) == pc = "returned" /\ call.op \in ops

Adders == {"add_transaction", "add_proposal", "add_block"}

PoolsAsBefore ==
  /\ pending_transactions = pre_transactions
  /\ pending_proposals = pre_proposals
  /\ current_block = "None"

\* The verdict of the validator on the argument of the call, in the state the
\* call was made in.
TxVerdict(transaction) == ValidateTransaction(registry, signature_verifier, transaction).ret
ProposalVerdict(proposal) == ValidateProposal(registry, signature_verifier, proposal).ret
SvcTxVerdict(transaction) == SvcValidateTransaction(sregistry, transaction).ret

\* C1: add_transaction returns True and appends exactly the transaction when
\* validate_transaction is True; it returns False and leaves
\* pending_transactions as it was when validate_transaction is False.
C1_AddTransactionContract ==
  ReturnedFrom({"add_transaction"}) =>
    /\ TxVerdict(call.arg) = PyTrue =>
         /\ ret = PyTrue
         /\ pending_transactions = Append(pre_transactions, call.arg)
    /\ TxVerdict(call.arg) = PyFalse =>
         /\ ret = PyFalse
         /\ pending_transactions = pre_transactions

\* C2: add_proposal returns True and appends exactly the proposal when
\* validate_proposal is True; a rejected proposal makes it return False and
\* leaves both pools as they were.
C2_AddProposalContract ==
  ReturnedFrom({"add_proposal"}) =>
    /\ ProposalVerdict(call.arg) = PyTrue =>
         /\ ret = PyTrue
         /\ pending_proposals = Append(pre_proposals, call.arg)
         /\ pending_transactions = pre_transactions
    /\ ProposalVerdict(call.arg) = PyFalse =>
         /\ ret = PyFalse
         /\ PoolsAsBefore

\* Some transaction of some proposal of the block does not validate.
HasInvalidTransaction(block) ==
  \E i \in 1..Len(block.proposals) :
    \E j \in 1..Len(block.proposals[i].transactions) :
      TxVerdict(block.proposals[i].transactions[j]) # PyTrue
HasInvalidProposal(block) ==
  \E i \in 1..Len(block.proposals) : ProposalVerdict(block.proposals[i]) # PyTrue
SvcHasInvalidTransaction(block) ==
  /\ IsDict(block)
  /\ DictHas(block, "transactions")
  /\ DictGet(block, "transactions").t = "list"
  /\ \E j \in 1..Len(DictGet(block, "transactions").xs) :
       SvcTxVerdict(DictGet(block, "transactions").xs[j]) # PyTrue

\* C3: a block with an invalid nested entity at any depth (a proposal, or a
\* transaction of a proposal; a transaction of the block in the dict based
\* pipeline) is not accepted by validate_block nor by add_block, whatever the
\* validity of everything else in it.
C3_FailFastCascade ==
  /\ ReturnedFrom({"Validator.validate_block"})
       /\ (HasInvalidTransaction(call.arg) \/ HasInvalidProposal(call.arg))
       => /\ ret # PyTrue
          /\ BlockAdmission(call.arg, Result(ret, trace)).ret # PyTrue
  /\ ReturnedFrom({"ValidationService.validate_block"}) /\ SvcHasInvalidTransaction(call.arg)
       => ret = PyFalse

\* A block whose own signature verifies, whose first proposal's signature
\* verifies and holds a valid transaction followed by an invalid one, rejected.
C3_Witness ==
  /\ ReturnedFrom({"Validator.validate_block"})
  /\ ValidateBlockFormat(call.arg)
  /\ HasMessageForSigning(call.arg)
  /\ IdVerifySignature(registry, signature_verifier, call.arg.producer,
                       call.arg.message, call.arg.signature).ret = PyTrue
  /\ Len(call.arg.proposals) = 1
  /\ ValidateProposalNoTransactions(registry, signature_verifier,
                                    call.arg.proposals[1]).ret = PyTrue
  /\ Len(call.arg.proposals[1].transactions) = 2
  /\ TxVerdict(call.arg.proposals[1].transactions[1]) = PyTrue
  /\ TxVerdict(call.arg.proposals[1].transactions[2]) = PyFalse
  /\ ret = PyFalse

AllValidators ==
  {"Validator.validate_transaction", "Validator.validate_proposal",
   "Validator.validate_block", "ValidationService.validate_transaction",
   "ValidationService.validate_block", "ValidationService.validate_proposal"}

\* C4: the three validators are total: every call returns True or False.
C4_ValidatorsTotal ==
  ReturnedFrom(AllValidators) => ret \in {PyTrue, PyFalse}

\* An entity that lacks a field its validator requires, or the method the
\* validator calls.
Malformed(op, entity) ==
  \/ ~HasMessageForSigning(entity)
  \/ op = "add_transaction" /\ ~ValidateTransactionFormat(entity)
  \/ op = "add_proposal" /\ ~ValidateProposalFormat(entity)
  \/ op = "add_block" /\ ~ValidateBlockFormat(entity)

\* C5: add_transaction, add_proposal and add_block return False on a malformed
\* entity, and leave the pools unchanged.
C5_MalformedInputReturnsFalse ==
  ReturnedFrom(Adders) /\ Malformed(call.op, call.arg) =>
    /\ ret = PyFalse
    /\ PoolsAsBefore

\* The number of calls of `name` in the trace.
CountEvents(t, name) == Cardinality({i \in 1..Len(t) : t[i][1] = name})

\* The identity service verifies the signature of the entity over its content
\* against the DID `did`.
SignatureVerifies(entity, did) ==
  /\ HasMessageForSigning(entity)
  /\ IdVerifySignature(registry, signature_verifier, did,
                       GetMessageForSigning(entity), entity.signature).ret = PyTrue

\* The same in the dict based pipeline: the document of `did` is found and
\* valid, and the hex signature verifies over the serialized data with the
\* document's key.
SvcSignatureVerifies(did, data, signature) ==
  /\ ~GetDidDocument(sregistry, did).none
  /\ SvcValidateDidDocument(GetDidDocument(sregistry, did))
  /\ JsonSerializable(data)
  /\ FromHexOk(signature)
  /\ FederationVerifySignature(SerializeForVerification(data), signature.sig,
                               GetDidDocument(sregistry, did))

\* p.transactions of a proposal dict
SvcProposalTransactions(proposal) ==
  IF DictHas(proposal, "transactions") /\ DictGet(proposal, "transactions").t = "list"
    THEN DictGet(proposal, "transactions").xs ELSE <<>>

\* C6, for Validator.validate_proposal: True exactly when the required fields
\* are there, the signature verifies against the proposer and every
\* transaction validates; no transaction after the first failing one is
\* validated.
C6_ValidatorProposal ==
  ReturnedFrom({"Validator.validate_proposal"}) =>
    /\ ret = PyTrue <=>
         /\ ValidateProposalFormat(call.arg)
         /\ SignatureVerifies(call.arg, call.arg.proposer)
         /\ \A j \in 1..Len(call.arg.transactions) :
              TxVerdict(call.arg.transactions[j]) = PyTrue
    /\ "transactions" \in call.arg.attrs =>
         \A j \in 1..Len(call.arg.transactions) :
           TxVerdict(call.arg.transactions[j]) # PyTrue
             => CountEvents(trace, "validate_transaction") <= j

\* C6: validate_proposal returns True exactly when the proposal has all
\* required fields, its signature verifies against the proposer and every
\* transaction in its transactions passes validate_transaction; the first
\* failing transaction ends the validation.
C6_ProposalExactly ==
  /\ C6_ValidatorProposal
  /\ ReturnedFrom({"ValidationService.validate_proposal"}) =>
       (ret = PyTrue <=>
          /\ IsDict(call.arg)
          /\ SvcProposalRequired \subseteq DictKeys(call.arg)
          /\ SvcSignatureVerifies(DictGet(call.arg, "proposer"),
                                  DictGet(call.arg, "blockData"),
                                  DictGet(call.arg, "signature"))
          /\ \A j \in 1..Len(SvcProposalTransactions(call.arg)) :
               SvcTxVerdict(SvcProposalTransactions(call.arg)[j]) = PyTrue)

\* C7: validate_block returns True exactly when the block has all required
\* fields, its signature verifies against the producer and every proposal in
\* its proposals passes validate_proposal.
C7_BlockExactly ==
  ReturnedFrom({"Validator.validate_block"}) =>
    (ret = PyTrue <=>
       /\ ValidateBlockFormat(call.arg)
       /\ SignatureVerifies(call.arg, call.arg.producer)
       /\ \A i \in 1..Len(call.arg.proposals) :
            ProposalVerdict(call.arg.proposals[i]) = PyTrue)

\* A block of two proposals accepted, and a block with a valid signature and
\* a valid first proposal rejected for its second proposal.
C7_Witness ==
  /\ ReturnedFrom({"Validator.validate_block"})
  /\ Len(call.arg.proposals) = 2
  /\ SignatureVerifies(call.arg, call.arg.producer)
  /\ ProposalVerdict(call.arg.proposals[1]) = PyTrue
  /\ ProposalVerdict(call.arg.proposals[2]) = PyFalse
  /\ ret = PyFalse

ValidateEvents == {"validate_transaction", "validate_proposal", "validate_block"}

\* C8: validate_transaction returns True exactly when the transaction has
\* all required fields and the identity service verifies its signature over
\* its content against the DID of its signer; it validates no nested entity.
C8_TransactionExactly ==
  /\ ReturnedFrom({"Validator.validate_transaction"}) =>
       /\ ret = PyTrue <=>
            /\ ValidateTransactionFormat(call.arg)
            /\ SignatureVerifies(call.arg, call.arg.sender)
       /\ \A i \in 2..Len(trace) : trace[i][1] \notin ValidateEvents
  /\ ReturnedFrom({"ValidationService.validate_transaction"}) =>
       /\ ret = PyTrue <=>
            /\ IsDict(call.arg)
            /\ SvcTxRequired \subseteq DictKeys(call.arg)
            /\ SvcSignatureVerifies(DictGet(call.arg, "signer"),
                                    DictGet(call.arg, "content"),
                                    DictGet(call.arg, "signature"))
       /\ CountEvents(trace, "get_did_document") <= 1

\* A transaction with every required field rejected for its signature.
C8_Witness ==
  /\ ReturnedFrom({"Validator.validate_transaction"})
  /\ ValidateTransactionFormat(call.arg)
  /\ HasMessageForSigning(call.arg)
  /\ ~ResolveDid(registry, call.arg.sender).none
  /\ ValidateDidDocument(ResolveDid(registry, call.arg.sender))
  /\ CountEvents(trace, "SignatureVerifier.verify_signature") = 1
  /\ ret = PyFalse

\* No verification key can be extracted from the document.
KeyMissing(doc) ==
  \/ FirstKey(DocVerificationMethods(doc), 1).none
  \/ FirstKey(DocVerificationMethods(doc), 1).key = <<>>

\* C9: verify_signature returns False, and does not call the signature
\* verifier, when the DID resolves to nothing, the document fails validation
\* or no key can be extracted from it.
C9_NoKeyNoVerification ==
  ReturnedFrom({"IdentityService.verify_signature"})
    /\ \/ DocFalsy(ResolveDid(registry, call.arg.did))
       \/ ~ValidateDidDocument(ResolveDid(registry, call.arg.did))
       \/ KeyMissing(ResolveDid(registry, call.arg.did))
    => /\ ret = PyFalse
       /\ CountEvents(trace, "SignatureVerifier.verify_signature") = 0

\* An invalid document whose first key verifies the signature: refused.
C9_Witness ==
  /\ ReturnedFrom({"IdentityService.verify_signature"})
  /\ ~DocFalsy(ResolveDid(registry, call.arg.did))
  /\ ~ValidateDidDocument(ResolveDid(registry, call.arg.did))
  /\ ~KeyMissing(ResolveDid(registry, call.arg.did))
  /\ FedVerify(call.arg.message, call.arg.signature,
               FirstKey(DocVerificationMethods(ResolveDid(registry, call.arg.did)), 1).key)
  /\ ret = PyFalse

\* The declared type of the verification method the key is taken from: in a
\* document that validates every method has a key, so it is the first one.
SelectedType(doc) == DocVerificationMethods(doc)[1].type

\* C10: with a document that validates and yields a key, verify_signature
\* returns the result of the Signature Verifier for the message, the
\* signature and that key under the algorithm of the method's declared type.
C10_DispatchOnDeclaredType ==
  ReturnedFrom({"IdentityService.verify_signature"})
    /\ ~DocFalsy(ResolveDid(registry, call.arg.did))
    /\ ValidateDidDocument(ResolveDid(registry, call.arg.did))
    /\ ~KeyMissing(ResolveDid(registry, call.arg.did))
    => ret = IdSigVerify(call.arg.message, call.arg.signature,
                         FirstKey(DocVerificationMethods(ResolveDid(registry, call.arg.did)), 1).key,
                         SelectedType(ResolveDid(registry, call.arg.did)))

\* C11: no transaction is at the same time an entry of pending_transactions
\* and embedded in a proposal held in pending_proposals.
C11_SingleOwner ==
  \A i \in 1..Len(pending_transactions) :
    \A j \in 1..Len(pending_proposals) :
      \A k \in 1..Len(pending_proposals[j].transactions) :
        pending_proposals[j].transactions[k] # pending_transactions[i]

\* The threads whose call returned True.
Succeeded == {t \in Threads : threads[t].pc = "done" /\ threads[t].ret = PyTrue}

\* The positions of the pool that hold `transaction`.
Positions(transaction) ==
  {i \in 1..Len(pending_transactions) : pending_transactions[i] = transaction}

\* C12: when the concurrent add_transaction calls have all returned, the pool
\* holds one entry per successful call: as many entries as successes, each
\* transaction as often as it was successfully submitted, so N distinct
\* entries for N successful calls with distinct transactions.
C12_NoLostNoDuplicate ==
  (\A t \in Threads : threads[t].pc = "done") =>
    /\ Len(pending_transactions) = Cardinality(Succeeded)
    /\ \A transaction \in ConcurrentTxs :
         Cardinality(Positions(transaction)) =
           Cardinality({t \in Succeeded : threads[t].tx = transaction})

\* All calls succeeded with different transactions, and the call validated
\* first was overtaken: its transaction is the last entry of the pool.
C12_Witness ==
  /\ Succeeded = Threads
  /\ \A t, u \in Threads : t # u => threads[t].tx # threads[u].tx
  /\ Len(pending_transactions) = NThreads
  /\ \E t \in Threads :
       /\ threads[t].seq = 0
       /\ pending_transactions[NThreads] = threads[t].tx

IsPrefix(s, t) == Len(s) <= Len(t) /\ SubSeq(t, 1, Len(s)) = s

\* C13: both pending pools are append-only: every step of the engine leaves
\* the pool it had as a prefix of the pool it has, so every earlier value is
\* a prefix of every later one.
C13_AppendOnly ==
  [][/\ IsPrefix(pending_transactions, pending_transactions')
     /\ IsPrefix(pending_proposals, pending_proposals')]_vars

\* Both pools have grown, the transaction pool twice with different entries.
C13_Witness ==
  /\ Len(pending_transactions) = 2
  /\ pending_transactions[1] # pending_transactions[2]
  /\ Len(pending_proposals) >= 1

\* C14: validate_block and add_block return exactly the validator's verdict
\* on the block and change no engine state; add_transaction never changes
\* pending_proposals and add_proposal never changes pending_transactions.
C14_BlockCallsAreReadOnly ==
  /\ ReturnedFrom({"validate_block", "add_block"}) =>
       /\ ret = ValidateBlock(registry, signature_verifier, call.arg).ret
       /\ PoolsAsBefore
  /\ ReturnedFrom({"add_transaction"}) =>
       pending_proposals = pre_proposals /\ current_block = "None"
  /\ ReturnedFrom({"add_proposal"}) =>
       pending_transactions = pre_transactions /\ current_block = "None"

\* The four checks of a DID document, each on its own.
HasId(doc) == "id" \in doc.has /\ doc.id # ""
HasMethods(doc) == Len(DocVerificationMethods(doc)) > 0
MethodsComplete(doc) ==
  \A i \in 1..Len(DocVerificationMethods(doc)) :
    {"id", "type", "controller", "publicKeyMultibase"}
      \subseteq DocVerificationMethods(doc)[i].has
DeclaredServices(doc) ==
  IF "service" \in doc.has THEN {doc.service[i] : i \in 1..Len(doc.service)} ELSE {}
\* The method carries a reference that is no declared service; an empty
\* single value is no reference.
Unresolved(doc, method) ==
  /\ "serviceEndpoint" \in method.has
  /\ IF method.serviceEndpoint.isList
       THEN \E k \in 1..Len(method.serviceEndpoint.refs) :
              method.serviceEndpoint.refs[k] \notin DeclaredServices(doc)
       ELSE /\ Len(method.serviceEndpoint.refs) = 1
            /\ method.serviceEndpoint.refs[1] # ""
            /\ method.serviceEndpoint.refs[1] \notin DeclaredServices(doc)
ReferencesResolve(doc) ==
  \A i \in 1..Len(DocVerificationMethods(doc)) :
    ~Unresolved(doc, DocVerificationMethods(doc)[i])

FirstFailingCheck(doc) ==
  IF ~HasId(doc) THEN 1
  ELSE IF ~HasMethods(doc) THEN 2
  ELSE IF ~MethodsComplete(doc) THEN 3
  ELSE IF ~ReferencesResolve(doc) THEN 4
  ELSE 0

ErrorOfCheck(n) ==
  CASE n = 1 -> "missing id"
    [] n = 2 -> "no verification methods"
    [] n = 3 -> "method missing required fields"
    [] OTHER -> "non-existent service"

LoggedErrors(t) == SelectSeq(t, LAMBDA e : e[1] = "logger.error")

\* The document with `c` as the controller of every verification method.
WithController(doc, c) ==
  [doc EXCEPT !.verificationMethod =
     [i \in 1..Len(doc.verificationMethod) |->
        [doc.verificationMethod[i] EXCEPT !.controller = c]]]

\* C15: validate_did_document returns True exactly when the four checks pass
\* (id, at least one method, complete methods, resolving references); it
\* stops at the first failing check, which is the one error it logs; the
\* controllers of the methods have no effect on the result.
C15_FourChecksInOrder ==
  ReturnedFrom({"IdentityService.validate_did_document"}) =>
    /\ ret = PyTrue <=> FirstFailingCheck(call.arg) = 0
    /\ ret \in {PyTrue, PyFalse}
    /\ LoggedErrors(trace) =
         IF FirstFailingCheck(call.arg) = 0 THEN <<>>
         ELSE << <<"logger.error", ErrorOfCheck(FirstFailingCheck(call.arg))>> >>
    /\ \A c \in {D1, D2, D3} :
         ValidateDidDocument(WithController(call.arg, c)) <=> ret = PyTrue

\* A document of two methods accepted although none is controlled by its id.
C15_Witness ==
  /\ ReturnedFrom({"IdentityService.validate_did_document"})
  /\ Len(call.arg.verificationMethod) = 2
  /\ \A i \in 1..2 : call.arg.verificationMethod[i].controller # call.arg.id
  /\ <<"logger.warning", "not a controller">> \in {trace[i] : i \in 1..Len(trace)}
  /\ ret = PyTrue

\* C16: a document in which a verification method carries a service
\* reference that is no declared service id is rejected: any element of a
\* list-valued reference, or a single reference.
C16_UnresolvedReferenceRejects ==
  ReturnedFrom({"IdentityService.validate_did_document"})
    /\ (\E i \in 1..Len(DocVerificationMethods(call.arg)) :
          Unresolved(call.arg, DocVerificationMethods(call.arg)[i]))
    => ret = PyFalse

\* The first three checks pass and the one unresolved reference is the second
\* element of a list whose first element resolves.
C16_Witness ==
  /\ ReturnedFrom({"IdentityService.validate_did_document"})
  /\ HasId(call.arg) /\ HasMethods(call.arg) /\ MethodsComplete(call.arg)
  /\ \E i \in 1..Len(call.arg.verificationMethod) :
       /\ "serviceEndpoint" \in call.arg.verificationMethod[i].has
       /\ call.arg.verificationMethod[i].serviceEndpoint.isList
       /\ call.arg.verificationMethod[i].serviceEndpoint.refs = <<"svc1", "svc9">>
  /\ call.arg.service = <<"svc1">>
  /\ "service" \in call.arg.has
  /\ ret = PyFalse

\* C17: verify_did returns True exactly when the DID resolves to a document
\* and the document passes the four checks; it returns False when the DID is
\* not found.
C17_VerifyDid ==
  ReturnedFrom({"IdentityService.verify_did"}) =>
    /\ ret \in {PyTrue, PyFalse}
    /\ ret = PyTrue <=>
         /\ ~ResolveDid(registry, call.arg).none
         /\ FirstFailingCheck(ResolveDid(registry, call.arg)) = 0
    /\ ResolveDid(registry, call.arg).none => ret = PyFalse

\* The DID is not found.
C17_Witness ==
  /\ ReturnedFrom({"IdentityService.verify_did"})
  /\ ResolveDid(registry, call.arg).none
  /\ ret = PyFalse

\* The key string without its multibase prefix.
WithoutPrefix(public_key) ==
  IF Len(public_key) > 0 /\ public_key[1] = "z" THEN Tail(public_key) ELSE public_key

\* The document resolves and is valid.
Usable(doc) == ~doc.none /\ FirstFailingCheck(doc) = 0

\* The verification methods of the document whose id is `key_id`.
MethodsWithId(doc, key_id) ==
  {i \in 1..Len(DocVerificationMethods(doc)) :
     DocVerificationMethods(doc)[i].id = key_id}

C19_VerifierTotal ==
  /\ ReturnedFrom({"SignatureVerifier.verify", "SignatureVerifier.verify_signature"}) =>
       ret \in {PyTrue, PyFalse}
  /\ ReturnedFrom({"SignatureVerifier.verify"})
       /\ call.arg.key_type \notin {"Ed25519", "ed25519", "RSA"}
       => ret = PyFalse

\* verify called with a tag that is no string, a valid Ed25519 key and a
\* signature made with it over the message.
C19_Witness ==
  /\ ReturnedFrom({"SignatureVerifier.verify"})
  /\ call.arg.key_type = NonStringTag
  /\ call.arg.public_key = Key64
  /\ call.arg.signature = EdSign64(Key64, call.arg.message)
  /\ ret = PyFalse

\* The call passes a key of the algorithm of its tag and a signature made
\* with that key over the message.
CorrectlySigned(arg) ==
  \/ /\ arg.key_type = "Ed25519"
     /\ arg.public_key = Key64
     /\ arg.signature = EdSign64(Key64, arg.message)
  \/ /\ arg.key_type = "RSA-SHA256"
     /\ arg.public_key = KeyRsa64
     /\ arg.signature = RsaSign(KeyRsa64, arg.message)
  \/ /\ arg.key_type = "EC-SHA256"
     /\ arg.public_key = KeyA
     /\ arg.signature = EcSign(KeyA, arg.message)

\* C20: the dispatch is a closed match over the tags Ed25519, RSA-SHA256 and
\* EC-SHA256: a correctly signed message verifies under each of the three,
\* and every other tag is rejected.
C20_ThreeAlgorithms ==
  ReturnedFrom({"SignatureVerifier.verify"}) =>
    /\ CorrectlySigned(call.arg) => ret = PyTrue
    /\ call.arg.key_type \notin {"Ed25519", "RSA-SHA256", "EC-SHA256"} => ret = PyFalse

(***************************************************************************)
(* Federation.verify_signature: round trip, tampering, unusable documents. *)
(***************************************************************************)
KeyPairs == {HexKeyA, HexKeyB}

\* The first publicKey entry of the document is the public key of the pair `k`.
FirstKeyIs(did_document, k) ==
  /\ ~did_document.none
  /\ "publicKey" \in did_document.has
  /\ Len(did_document.publicKey) > 0
  /\ "publicKeyHex" \in did_document.publicKey[1].has
  /\ did_document.publicKey[1].publicKeyHex = k

\* C21: a signature made by signing the message with the private key of a pair
\* verifies as true against a document whose first key is the public key of
\* that pair, for every message and key pair.
C21_RoundTrip ==
  ReturnedFrom({"Federation.verify_signature"}) =>
    \A k \in KeyPairs :
      (FirstKeyIs(call.arg.did_document, k)
         /\ call.arg.signature = IcnSign(k, call.arg.message)) => ret = PyTrue

\* A round trip against a document with two keys, the signing pair's first.
C21_Witness ==
  /\ ReturnedFrom({"Federation.verify_signature"})
  /\ Len(call.arg.did_document.publicKey) = 2
  /\ FirstKeyIs(call.arg.did_document, HexKeyA)
  /\ call.arg.signature = IcnSign(HexKeyA, M2)
  /\ call.arg.message = M2
  /\ ret = PyTrue

\* C22: a signature made over message m with the key pair k is rejected
\* (verification returns false) against any other message and against any
\* document whose first key is not the public key of k: verification succeeds
\* only for the exact message and key that were signed.
C22_TamperRejected ==
  ReturnedFrom({"Federation.verify_signature"}) =>
    \A k \in KeyPairs, m \in FedMessages :
      (call.arg.signature = IcnSign(k, m)
         /\ (call.arg.message # m \/ ~FirstKeyIs(call.arg.did_document, k))) => ret = PyFalse

\* A signature checked against a document that lists the signer's key second,
\* behind another pair's key.
C22_Witness ==
  /\ ReturnedFrom({"Federation.verify_signature"})
  /\ call.arg.signature = IcnSign(HexKeyA, M1)
  /\ call.arg.message = M1
  /\ FirstKeyIs(call.arg.did_document, HexKeyB)
  /\ Len(call.arg.did_document.publicKey) = 2
  /\ call.arg.did_document.publicKey[2].publicKeyHex = HexKeyA
  /\ ret = PyFalse

(***************************************************************************)
(* Canonical serialization.                                                *)
(***************************************************************************)
\* The same object built with its fields in the opposite order, at every
\* nesting level; lists keep their order.
RECURSIVE ReorderFields(_)
ReorderFields(v) ==
  CASE v.t = "dict" ->
         VDict([i \in 1..Len(v.items) |->
                  Item(v.items[Len(v.items) + 1 - i].k,
                       ReorderFields(v.items[Len(v.items) + 1 - i].v))])
    [] v.t = "list" -> VList([i \in 1..Len(v.xs) |-> ReorderFields(v.xs[i])])
    [] OTHER -> v

SvcVerdict(op, sreg, entity) ==
  IF op = "ValidationService.validate_transaction"
    THEN SvcValidateTransaction(sreg, entity).ret
    ELSE SvcValidateBlock(sreg, entity).ret

\* C23: canonical serialization does not depend on field order: an object and
\* its copy with the fields in another order at every nesting level serialize
\* to the same bytes and have the same fingerprint, and the reordered copy of
\* a transaction or block gets the verdict of the original, so the copy of a
\* validly signed one still validates.
C23_FieldOrderIndependent ==
  ReturnedFrom({"ValidationService.validate_transaction",
                "ValidationService.validate_block"}) =>
    LET copy == ReorderFields(call.arg) IN
    /\ SerializeForVerification(copy) = SerializeForVerification(call.arg)
    /\ IsDict(call.arg) => CalculateFingerprint(copy) = CalculateFingerprint(call.arg)
    /\ SvcVerdict(call.op, sregistry, copy) = ret

\* A valid block with a transaction in it, whose reordered copy differs from it
\* at both levels.
C23_Witness ==
  /\ ReturnedFrom({"ValidationService.validate_block"})
  /\ ret = PyTrue
  /\ Len(DictGet(call.arg, "transactions").xs) > 0
  /\ ReorderFields(call.arg).items[1].k # call.arg.items[1].k
  /\ ReorderFields(DictGet(call.arg, "transactions").xs[1])
       # DictGet(call.arg, "transactions").xs[1]

(***************************************************************************)
(* Order of the validation steps.                                          *)
(***************************************************************************)
\* The entities of a call in the order of validation: the entity, then its
\* nested entities in sequence order, each followed by its own.
Entry(kind, e) == [kind |-> kind, e |-> e]
TxEntries(txs) == [i \in 1..Len(txs) |-> Entry("transaction", txs[i])]
ProposalEntries(proposal) == <<Entry("proposal", proposal)>> \o TxEntries(proposal.transactions)
RECURSIVE ProposalsEntries(_, _)
ProposalsEntries(props, i) ==
  IF i > Len(props) THEN <<>>
  ELSE ProposalEntries(props[i]) \o ProposalsEntries(props, i + 1)
Entries(op, arg) ==
  CASE op = "Validator.validate_transaction" -> <<Entry("transaction", arg)>>
    [] op = "Validator.validate_proposal" -> ProposalEntries(arg)
    [] OTHER -> <<Entry("block", arg)>> \o ProposalsEntries(arg.proposals, 1)

EntryMarker(x) ==
  CASE x.kind = "transaction" -> <<"validate_transaction", x.e.id>>
    [] x.kind = "proposal" -> <<"validate_proposal", x.e.id>>
    [] OTHER -> <<"validate_block", x.e.height>>
EntryFormat(x) ==
  CASE x.kind = "transaction" -> ValidateTransactionFormat(x.e)
    [] x.kind = "proposal" -> ValidateProposalFormat(x.e)
    [] OTHER -> ValidateBlockFormat(x.e)
EntrySigner(x) ==
  CASE x.kind = "transaction" -> x.e.sender
    [] x.kind = "proposal" -> x.e.proposer
    [] OTHER -> x.e.producer

\* Where the validations start in a trace, and the k-th of them.
Starts(t) == {i \in 1..Len(t) : t[i][1] \in ValidateEvents}
StartOf(t, k) == CHOOSE i \in Starts(t) : Cardinality({j \in Starts(t) : j <= i}) = k
\* The last event of the validation that starts at i.
EndOf(t, i) ==
  IF \E j \in Starts(t) : j > i
    THEN (CHOOSE j \in Starts(t) : j > i /\ \A h \in Starts(t) : h > i => j <= h) - 1
    ELSE Len(t)

\* The k-th validation of the trace is the one of entity x, in the fixed order
\* of its steps.
StepsInOrder(t, k, n, x) ==
  LET i == StartOf(t, k) IN
  /\ t[i] = EntryMarker(x)
  /\ ~EntryFormat(x) => i = Len(t)
  /\ (EntryFormat(x) /\ HasMessageForSigning(x.e)) =>
       /\ i < Len(t)
       /\ t[i + 1] = <<"resolve_did", EntrySigner(x)>>
  /\ \A j \in (i + 2)..EndOf(t, i) : t[j][1] = "SignatureVerifier.verify_signature"
  /\ ~(EntryFormat(x) /\ SignatureVerifies(x.e, EntrySigner(x))) => k = n

SvcWellFormed(transaction) ==
  IsDict(transaction) /\ SvcTxRequired \subseteq DictKeys(transaction)
Resolved(t) == SelectSeq(t, LAMBDA e : e[1] = "get_did_document")

\* C24: every validator checks the required fields first, then has the signer
\* of the entity verified, then validates the nested entities in sequence
\* order. The identity service is not called for an entity that fails the
\* required-field check, and when the signature check of an entity fails no
\* entity nested in it is validated and no resolver call is made for a nested
\* signer.
C24_StepsInFixedOrder ==
  /\ ReturnedFrom({"Validator.validate_transaction", "Validator.validate_proposal",
                   "Validator.validate_block"}) =>
       LET all == Entries(call.op, call.arg)
           n == Cardinality(Starts(trace))
       IN /\ 1 <= n /\ n <= Len(all)
          /\ 1 \in Starts(trace)
          /\ \A k \in 1..n : StepsInOrder(trace, k, n, all[k])
  /\ ReturnedFrom({"ValidationService.validate_block"}) =>
       IF ~(IsDict(call.arg) /\ SvcBlockRequired \subseteq DictKeys(call.arg))
         THEN trace = <<>>
         ELSE LET txs == DictGet(call.arg, "transactions")
                  dids == Resolved(trace)
              IN /\ Len(trace) >= 1
                 /\ trace[1] = <<"get_did_document", DidText(DictGet(call.arg, "producer"))>>
                 /\ ~SvcSignatureVerifies(DictGet(call.arg, "producer"),
                                          WithoutSignature(call.arg),
                                          DictGet(call.arg, "signature"))
                      => Len(dids) = 1
                 /\ Len(dids) > 1 =>
                      /\ txs.t = "list"
                      /\ Len(dids) - 1 <= Len(txs.xs)
                      /\ \A i \in 1..(Len(dids) - 1) :
                           /\ SvcWellFormed(txs.xs[i])
                           /\ dids[i + 1][2] = DidText(DictGet(txs.xs[i], "signer"))
                           /\ i < Len(dids) - 1 => SvcTxVerdict(txs.xs[i]) = PyTrue
  /\ ReturnedFrom({"ValidationService.validate_transaction"}) /\ ~SvcWellFormed(call.arg)
       => trace = <<>>
  /\ ReturnedFrom({"ValidationService.validate_proposal"})
       /\ ~(IsDict(call.arg) /\ SvcProposalRequired \subseteq DictKeys(call.arg))
       => trace = <<>>

\* A block whose signature verifies and whose first proposal validates with
\* its transaction; the signature of the second proposal fails, and the
\* transaction it holds is not validated.
C24_Witness ==
  /\ ReturnedFrom({"Validator.validate_block"})
  /\ SignatureVerifies(call.arg, call.arg.producer)
  /\ Len(call.arg.proposals) = 2
  /\ ProposalVerdict(call.arg.proposals[1]) = PyTrue
  /\ Len(call.arg.proposals[1].transactions) = 1
  /\ ValidateProposalFormat(call.arg.proposals[2])
  /\ ~SignatureVerifies(call.arg.proposals[2], call.arg.proposals[2].proposer)
  /\ Len(call.arg.proposals[2].transactions) = 1
  /\ Cardinality(Starts(trace)) = 4
  /\ ret = PyFalse

(***************************************************************************)
(* What the signature of a block covers.                                   *)
(***************************************************************************)
\* The block with field `key` set to `val` (added when the block has none).
SetField(block, key, val) ==
  IF DictHas(block, key)
    THEN VDict([i \in 1..Len(block.items) |->
                  IF block.items[i].k = key THEN Item(key, val) ELSE block.items[i]])
    ELSE VDict(block.items \o <<Item(key, val)>>)
RemoveField(block, key) == VDict(SelectSeq(block.items, LAMBDA it : it.k # key))

\* Copies of the block in which one field other than the signature differs.
Tampered(block) ==
  {SetField(block, "previousHash", VStr("ffffffffffffffff")),
   SetField(block, "previousHash", VStr("0000000000000000")),
   RemoveField(block, "previousHash"),
   SetField(block, "timestamp", VStr("2024-01-01T00:00:00Z")),
   SetField(block, "id", VStr("b9")),
   SetField(block, "producer", VStr(S2)),
   SetField(block, "transactions", VList(<<>>)),
   SetField(block, "transactions", VList(<<STx1>>)),
   SetField(block, "transactions", VList(DictGet(block, "transactions").xs \o <<STx2>>))}
    \ {block}

\* C25: validate_block verifies the producer's signature over the canonical
\* serialization of the block with exactly the signature field removed: an
\* accepted block is one whose producer signed all its other fields, required
\* or not (previousHash) and the transaction list included, and a copy of it
\* in which any field but the signature differs is rejected.
C25_SignatureCoversAllFields ==
  (ReturnedFrom({"ValidationService.validate_block"}) /\ ret = PyTrue) =>
    /\ DictGet(call.arg, "signature").sig.over
         = SerializeForVerification(RemoveField(call.arg, "signature"))
    /\ \A b \in Tampered(call.arg) : SvcValidateBlock(sregistry, b).ret = PyFalse

\* An accepted block that carries previousHash and a transaction.
C25_Witness ==
  /\ ReturnedFrom({"ValidationService.validate_block"})
  /\ ret = PyTrue
  /\ DictHas(call.arg, "previousHash")
  /\ Len(DictGet(call.arg, "transactions").xs) = 1
  /\ Cardinality(Tampered(call.arg)) >= 7

\* A document without a publicKey entry, with an empty publicKey list, or
\* whose first publicKey entry has no publicKeyHex.
NoUsableKey(did_document) ==
  /\ ~did_document.none
  /\ \/ "publicKey" \notin did_document.has
     \/ Len(did_document.publicKey) = 0
     \/ "publicKeyHex" \notin did_document.publicKey[1].has
CryptoEvents == {"keys.PublicKey.from_hex", "signatures.verify"}

\* C26: for every document that has no publicKey entry, an empty publicKey
\* list, or a first publicKey entry without publicKeyHex, Federation's
\* verify_signature returns false without raising and without any call into
\* the cryptographic library.
C26_NoKeyReturnsFalse ==
  (ReturnedFrom({"Federation.verify_signature"}) /\ NoUsableKey(call.arg.did_document)) =>
    /\ ret = PyFalse
    /\ \A i \in 1..Len(trace) : trace[i][1] \notin CryptoEvents

\* The first entry has no publicKeyHex; the second holds the key of the pair
\* that made the signature over the message.
C26_Witness ==
  /\ ReturnedFrom({"Federation.verify_signature"})
  /\ Len(call.arg.did_document.publicKey) = 2
  /\ "publicKeyHex" \notin call.arg.did_document.publicKey[1].has
  /\ call.arg.did_document.publicKey[2].publicKeyHex = HexKeyA
  /\ call.arg.signature = IcnSign(HexKeyA, call.arg.message)
  /\ ret = PyFalse

(***************************************************************************)
(* Admission to the pools.                                                 *)
(***************************************************************************)
\* C27: an entity enters a pool only at the end of the pool, by a call of
\* add_transaction (add_proposal) for it during which validate_transaction
\* (validate_proposal) returned true; nothing else changes a pool. Hence every
\* entry of a pool validated at the moment it was admitted.
C27_OnlyValidatedEnter ==
  [][/\ pending_transactions' # pending_transactions =>
          /\ call'.op = "add_transaction"
          /\ pending_transactions' = Append(pending_transactions, call'.arg)
          /\ ValidateTransaction(registry, signature_verifier, call'.arg).ret = PyTrue
     /\ pending_proposals' # pending_proposals =>
          /\ call'.op = "add_proposal"
          /\ pending_proposals' = Append(pending_proposals, call'.arg)
          /\ ValidateProposal(registry, signature_verifier, call'.arg).ret = PyTrue]_vars

\* Both pools hold an entry, and the resolver has changed since the admission
\* of the first transaction: it would not validate now.
C27_Witness ==
  /\ Len(pending_transactions) >= 1
  /\ Len(pending_proposals) >= 1
  /\ TxVerdict(pending_transactions[1]) # PyTrue

\* C28: whether add_transaction admits a transaction is decided by the
\* transaction and by what the resolver returns during the call alone: it is
\* admitted, and True is returned, exactly when it validates, whatever the
\* pools hold and whatever was submitted before; a transaction that is
\* already in the pool is admitted again.
C28_VerdictIgnoresPool ==
  ReturnedFrom({"add_transaction"}) =>
    /\ ret = PyTrue <=> TxVerdict(call.arg) = PyTrue
    /\ pending_transactions =
         IF TxVerdict(call.arg) = PyTrue THEN Append(pre_transactions, call.arg)
         ELSE pre_transactions

\* A transaction that the pool already held has been admitted again.
C28_Witness ==
  /\ ReturnedFrom({"add_transaction"})
  /\ ret = PyTrue
  /\ pre_transactions = <<call.arg>>
  /\ pending_transactions = <<call.arg, call.arg>>

(***************************************************************************)
(* The multibase prefix on the way from the document to the verifier.      *)
(***************************************************************************)
\* The key the first verification method of the document publishes.
Published(doc) == DocVerificationMethods(doc)[1].publicKeyMultibase

\* C29: on the path from a DID document to signature verification the
\* multibase prefix is removed exactly once: for a key published as 'z'
\* followed by the base58 string K, verification is made with the base58
\* decoding of the whole of K, also when K itself starts with 'z'.
C29_PrefixRemovedOnce ==
  (/\ ReturnedFrom({"IdentityService.verify_signature"})
   /\ signature_verifier = "federation.signature"
   /\ ~DocFalsy(ResolveDid(registry, call.arg.did))
   /\ ValidateDidDocument(ResolveDid(registry, call.arg.did))
   /\ StartsWithZ(Published(ResolveDid(registry, call.arg.did)))
   /\ Len(Published(ResolveDid(registry, call.arg.did))) > 1)
  => ret = PyBool(FedVerifyDecoded(call.arg.message, call.arg.signature,
                                   Tail(Published(ResolveDid(registry, call.arg.did)))))


====
